---------------------------- MODULE Spec2Model ----------------------------
(***************************************************************************)
(* A model of the finops-lib cost pipeline:                                *)
(*   - the provider adapters (finops_lib/aws.py, azure.py, gcp.py) and     *)
(*     the synthetic generator (finops_lib/base.py),                       *)
(*   - the report cycle of the CLI commands (finops_lib/cli.py),           *)
(*   - the composite score (finops_lib/scoring.py),                        *)
(*   - the anomaly and forecast charts                                     *)
(*     (finops_lib/dashboard/cost_analysis.py).                            *)
(*                                                                         *)
(* Conventions.  Money is an integer number of cents.  Dates are day       *)
(* numbers.  A DataFrame is a record [columns, rows]: the set of column    *)
(* names and the sequence of rows, each row a record over the columns.     *)
(* A call that can raise returns [status |-> "ok" | "raise", ...].         *)
(* Draws of Python's global `random` module are read from `stream`, a      *)
(* cyclic sequence of naturals fixed when the process starts, at position  *)
(* `rng_pos`.                                                              *)
(***************************************************************************)
EXTENDS Integers, Sequences, FiniteSets, TLC

VARIABLES
    \* ---- one CLI invocation (finops_lib/cli.py) ----
    pc,             \* position of the command
    cmd,            \* the command that was invoked
    start_date,     \* --start-date
    end_date,       \* --end-date
    test,           \* --test
    forecast,       \* --forecast
    stream,         \* the draws the random module will produce
    rng_pos,        \* how many draws were consumed
    test_mode,      \* provider -> self.test_mode
    client,         \* provider -> TRUE iff self.client was set
    fetched,        \* provider -> the DataFrame get_cost_data returned
    combined_data,  \* the ledger (pd.concat of the three frames)
    called,         \* the providers whose get_cost_data was called
    failed,         \* the providers whose get_cost_data raised
    output,         \* what the command printed as its result
    error,          \* the exception that ended the command ("" if none)
    forecast_given, \* whether --forecast was on the command line
    calls,          \* the constructor and function calls the command made
    budgets,        \* the contents of budgets.json: key -> budget
    budget_args,    \* --team, --project and --amount of a budget command
    budget,         \* the budget track_budget looked up
    budget_sets     \* how many times set_budget ran

VARIABLES
    \* ---- a call of calculate_composite_score (finops_lib/scoring.py) ----
    score_data,     \* the DataFrame passed as `data`
    score_args,     \* the forecast argument of the last call
    score           \* what the last call returned or raised

scoreVars == <<score_data, score_args, score>>

VARIABLES
    \* ---- a call of create_cost_anomaly_chart (dashboard/cost_analysis.py) ----
    anomaly_df,     \* the caller's DataFrame passed as `df`
    anomaly_args,   \* the providers and z_threshold of the call
    daily_costs,    \* the daily_costs frame the call built
    anomaly_pc      \* "input" until the call, then "charted"

anomalyVars == <<anomaly_df, anomaly_args, daily_costs, anomaly_pc>>

VARIABLES
    \* ---- a call of create_cost_forecast_chart (dashboard/cost_analysis.py) ----
    historical_df,  \* the caller's DataFrame passed as `historical_df`
    forecast_args,  \* the forecast_days and providers of the call
    traces,         \* provider -> the line fitted and the forecast trace added
    forecast_pc     \* "input" until the call, then "charted" or "raised"

forecastVars == <<historical_df, forecast_args, traces, forecast_pc>>

VARIABLES
    \* ---- a call of CloudCostProvider.get_test_data (finops_lib/base.py) ----
    gen_args,       \* the arguments of the last call and the random draws ahead
    generated       \* the DataFrame the last call returned

generatorVars == <<gen_args, generated>>

VARIABLES
    \* ---- a call of interpret_score (azure_finops_lib/web.py) ----
    interpret_args, \* the score and the cost_data of the last call
    interpretation  \* what the last call returned or raised

interpretVars == <<interpret_args, interpretation>>

VARIABLES
    \* ---- the exported gauges and their refresh (azure_finops_lib/metrics.py,
    \*      web.py) ----
    gauges,         \* gauge name -> (label values -> value): Gauge._metrics
    refresh_pc,     \* position of update_all_metrics ("idle" between cycles)
    refresh_data,   \* cost_data, budget_data and scores of the running cycle
    pending,        \* the items the running `for` loop has still to set
    cycles,         \* how many refresh cycles have ended
    gauges_before,  \* the gauges as they were when the running cycle started
    observed        \* what a request of /metrics read, and when

metricsVars == <<gauges, refresh_pc, refresh_data, pending, cycles, gauges_before,
                 observed>>

VARIABLES
    \* ---- a POST of /api/efficiency-score (azure_finops_lib/web.py) ----
    request_args,   \* the frame of the provider and the body of the request
    response        \* the status and the payload of the response

requestVars == <<request_args, response>>

VARIABLES
    \* ---- AzureCostProvider (azure_finops_lib/azure.py) ----
    azure_subscription_ids, \* self.subscription_ids of the constructed provider
    sample_rows,      \* the rows of cost_management_sample.json
    returned_rows     \* what get_cost_data returned

azureVars == <<azure_subscription_ids, sample_rows, returned_rows>>

budgetVars == <<budgets, budget_args, budget, budget_sets>>

cliVars == <<pc, cmd, start_date, end_date, test, forecast, stream, rng_pos,
             test_mode, client, fetched, combined_data, called, failed,
             output, error, forecast_given, calls, budgetVars>>

vars == <<cliVars, scoreVars, anomalyVars, forecastVars, generatorVars,
          interpretVars, metricsVars, requestVars, azureVars>>

\* what the steps of one component leave alone
notCli == <<scoreVars, anomalyVars, forecastVars, generatorVars, interpretVars,
            metricsVars, requestVars, azureVars>>
notScore == <<cliVars, anomalyVars, forecastVars, generatorVars, interpretVars,
              metricsVars, requestVars, azureVars>>
notAnomaly == <<cliVars, scoreVars, forecastVars, generatorVars, interpretVars,
                metricsVars, requestVars, azureVars>>
notForecast == <<cliVars, scoreVars, anomalyVars, generatorVars, interpretVars,
                 metricsVars, requestVars, azureVars>>
notGenerator == <<cliVars, scoreVars, anomalyVars, forecastVars, interpretVars,
                  metricsVars, requestVars, azureVars>>
notInterpret == <<cliVars, scoreVars, anomalyVars, forecastVars, generatorVars,
                  metricsVars, requestVars, azureVars>>
notMetrics == <<cliVars, scoreVars, anomalyVars, forecastVars, generatorVars,
                interpretVars, requestVars, azureVars>>

notRequest == <<cliVars, scoreVars, anomalyVars, forecastVars, generatorVars,
                interpretVars, metricsVars, azureVars>>
notAzure == <<cliVars, scoreVars, anomalyVars, forecastVars, generatorVars,
              interpretVars, metricsVars, requestVars>>

-----------------------------------------------------------------------------
(* Bounds of the model *)

MaxDay == 1
StreamLen == 2
MaxDraw == 2

-----------------------------------------------------------------------------
(* Generic helpers *)

Abs(x) == IF x < 0 THEN -x ELSE x

Min(a, b) == IF a < b THEN a ELSE b

RECURSIVE SumSeq(_)
SumSeq(s) == IF s = <<>> THEN 0 ELSE Head(s) + SumSeq(Tail(s))

Ok(v) == [status |-> "ok", value |-> v, exc |-> ""]

Raise(e) == [status |-> "raise", value |-> <<>>, exc |-> e]

-----------------------------------------------------------------------------
(* pandas *)

NoFrame == [columns |-> {}, rows |-> <<>>]

\* pd.DataFrame(data) for a list of dicts that all have the keys `cols`
DataFrame(cols, data) ==
    [columns |-> IF data = <<>> THEN {} ELSE cols, rows |-> data]

\* pd.concat([a, b, c])
Concat(a, b, c) ==
    [columns |-> a.columns \cup b.columns \cup c.columns,
     rows    |-> a.rows \o b.rows \o c.rows]

\* data['cost'].sum()
CostSum(rows) == SumSeq([i \in 1..Len(rows) |-> rows[i].cost])


\* combined_data.groupby(col)['cost'].sum(): a KeyError when the frame has no
\* such column, else the total cost of every value of the column
GroupBySum(data, col) ==
    IF col \notin data.columns
    THEN Raise("KeyError")
    ELSE LET keys == {data.rows[i][col] : i \in 1..Len(data.rows)}
             costOf(k) == [i \in 1..Len(data.rows) |->
                             IF data.rows[i][col] = k THEN data.rows[i].cost ELSE 0]
         IN  Ok([k \in keys |-> SumSeq(costOf(k))])

-----------------------------------------------------------------------------
(* The random module *)

Streams == [1..StreamLen -> 0..MaxDraw]

\* the draw at position p of stream s
Draw(s, p) == s[(p % StreamLen) + 1]

\* random.randint(a, b)
RandInt(s, p, a, b) == a + (Draw(s, p) % (b - a + 1))

\* random.choice(seq)
Choice(s, p, seq) == seq[(Draw(s, p) % Len(seq)) + 1]

-----------------------------------------------------------------------------
(* finops_lib/base.py: the synthetic generator *)

Vendors == {"AWS", "Azure", "GCP"}

MinPerDay == 3
MaxPerDay == 5
CostLoCents == 1000
CostHiCents == 100000
DrawsPerEntry == 5

\* f"{cloud_name}-{service}" for the services of each vendor
Services(cloud_name) ==
    CASE cloud_name = "AWS" ->
           <<"AWS-EC2", "AWS-S3", "AWS-RDS", "AWS-Lambda", "AWS-DynamoDB">>
      [] cloud_name = "Azure" ->
           <<"Azure-VirtualMachines", "Azure-Storage", "Azure-SQLDatabase",
             "Azure-Functions", "Azure-CosmosDB">>
      [] cloud_name = "GCP" ->
           <<"GCP-ComputeEngine", "GCP-Storage", "GCP-CloudSQL",
             "GCP-CloudFunctions", "GCP-BigQuery">>
      [] OTHER -> <<"Generic">>

Environments == <<"prod", "dev", "test">>
Teams == <<"platform", "data", "web">>
Projects == <<"project-1", "project-2", "project-3">>

TestColumns == {"timestamp", "service", "cost", "currency", "tags"}

\* round(random.uniform(10, 1000), 2), in cents
Uniform(s, p) == CostLoCents + ((CostHiCents - CostLoCents) * Draw(s, p)) \div MaxDraw

\* one generated entry; its five draws start at position p
TestEntry(s, p, date, cloud_name) ==
    [timestamp |-> date,
     service   |-> Choice(s, p, Services(cloud_name)),
     cost      |-> Uniform(s, p + 1),
     currency  |-> "USD",
     tags      |-> {<<"environment", Choice(s, p + 2, Environments)>>,
                    <<"team", Choice(s, p + 3, Teams)>>,
                    <<"project", Projects[RandInt(s, p + 4, 1, 3)]>>}]

\* a generator that may produce one entry fewer a day; C17 is checked against it
EntriesFromTwo(s, p) == RandInt(s, p, MinPerDay - 1, MaxPerDay)

\* the entries of one day: random.randint(3, 5) of them
EntriesPerDay(s, p) == RandInt(s, p, MinPerDay, MaxPerDay)

DayEntries(s, p, date, cloud_name) ==
    [j \in 1..EntriesPerDay(s, p) |->
        TestEntry(s, p + 1 + DrawsPerEntry * (j - 1), date, cloud_name)]

\* the loop `for date in dates`: the entries of the days date..last, and the
\* position of the stream after them
RECURSIVE TestRows(_, _, _, _, _)
TestRows(s, p, date, last, cloud_name) ==
    IF date > last
    THEN [rows |-> <<>>, pos |-> p]
    ELSE LET today == DayEntries(s, p, date, cloud_name)
             rest  == TestRows(s, p + 1 + DrawsPerEntry * Len(today),
                               date + 1, last, cloud_name)
         IN  [rows |-> today \o rest.rows, pos |-> rest.pos]

\* CloudCostProvider.get_test_data(self, start_date, end_date, cloud_name)
get_test_data(s, p, start, end, cloud_name) ==
    LET gen == TestRows(s, p, start, end, cloud_name)
    IN  [status |-> "ok", exc |-> "",
         value  |-> DataFrame(TestColumns, gen.rows), pos |-> gen.pos]

\* A call of get_test_data with the positional arguments `args` after self:
\* Python raises TypeError unless there are exactly three of them
GetTestDataArity == 3

call_get_test_data(s, p, args) ==
    IF Len(args) # GetTestDataArity
    THEN [status |-> "raise", exc |-> "TypeError", value |-> NoFrame, pos |-> p]
    ELSE get_test_data(s, p, args[1], args[2], args[3])

-----------------------------------------------------------------------------
(* finops_lib/aws.py, azure.py, gcp.py: the provider adapters *)

\* what the authentication and client creation of a constructor can do:
\* succeed, report failure (try_*_auth() is false), or raise
AuthOutcomes == {"ok", "denied", "error"}

RealCostAWS == 10000
RealCostAzure == 20000
RealCostGCP == 15000

RealRow(start, service, cost) ==
    [timestamp |-> start, service |-> service, cost |-> cost,
     currency |-> "USD", tags |-> {}]

\* a constructor that would not fall back when the authentication is denied
AWS_init_without_fallback(test_mode_arg, auth) ==
    IF ~test_mode_arg /\ auth = "ok"
    THEN [test_mode |-> test_mode_arg, client |-> TRUE]
    ELSE IF ~test_mode_arg /\ auth = "error"
    THEN [test_mode |-> TRUE, client |-> FALSE]
    ELSE [test_mode |-> test_mode_arg, client |-> FALSE]

\* AWSCostProvider.__init__(test_mode): the adapter's test_mode and whether
\* self.client was set
AWS_init(test_mode_arg, auth) ==
    IF ~test_mode_arg
    THEN IF auth = "error"  THEN [test_mode |-> TRUE, client |-> FALSE]
         ELSE IF auth = "denied" THEN [test_mode |-> TRUE, client |-> FALSE]
         ELSE [test_mode |-> test_mode_arg, client |-> TRUE]
    ELSE [test_mode |-> test_mode_arg, client |-> FALSE]

\* AzureCostProvider.__init__(subscription_id, test_mode)
Azure_init(test_mode_arg, auth) ==
    IF ~test_mode_arg
    THEN IF auth = "error"  THEN [test_mode |-> TRUE, client |-> FALSE]
         ELSE IF auth = "denied" THEN [test_mode |-> TRUE, client |-> FALSE]
         ELSE [test_mode |-> test_mode_arg, client |-> TRUE]
    ELSE [test_mode |-> test_mode_arg, client |-> FALSE]

\* GCPCostProvider.__init__(project_id, test_mode)
GCP_init(test_mode_arg, auth) ==
    IF ~test_mode_arg
    THEN IF auth = "error"  THEN [test_mode |-> TRUE, client |-> FALSE]
         ELSE IF auth = "denied" THEN [test_mode |-> TRUE, client |-> FALSE]
         ELSE [test_mode |-> test_mode_arg, client |-> TRUE]
    ELSE [test_mode |-> test_mode_arg, client |-> FALSE]

\* the `except Exception` handler shared in shape by the three adapters:
\* re-raise unless self.test_mode, else fall back to the generator
AWS_on_failure(self, s, p, start, end) ==
    IF ~self.test_mode
    THEN [status |-> "raise", exc |-> "ClientError", value |-> NoFrame, pos |-> p]
    ELSE call_get_test_data(s, p, <<start, end, "AWS">>)

\* AWSCostProvider.get_cost_data(start_date, end_date); api_raises: the call
\* self.client.get_cost_and_usage raises
AWS_get_cost_data(self, s, p, start, end, api_raises) ==
    IF self.test_mode
    THEN call_get_test_data(s, p, <<start, end, "AWS">>)
    ELSE IF ~api_raises /\ self.client
         THEN [status |-> "ok", exc |-> "", pos |-> p,
               value |-> DataFrame(TestColumns,
                            <<RealRow(start, "AWS-RealService", RealCostAWS)>>)]
         ELSE AWS_on_failure(self, s, p, start, end)

Azure_on_failure(self, s, p, start, end) ==
    IF ~self.test_mode
    THEN [status |-> "raise", exc |-> "Exception", value |-> NoFrame, pos |-> p]
    ELSE call_get_test_data(s, p, <<start, end, "Azure">>)

\* AzureCostProvider.get_cost_data(start_date, end_date); body_raises: a
\* statement of the try block raises
Azure_get_cost_data(self, s, p, start, end, body_raises) ==
    IF self.test_mode
    THEN call_get_test_data(s, p, <<start, end, "Azure">>)
    ELSE IF ~body_raises
         THEN [status |-> "ok", exc |-> "", pos |-> p,
               value |-> DataFrame(TestColumns,
                            <<RealRow(start, "Azure-RealService", RealCostAzure)>>)]
         ELSE Azure_on_failure(self, s, p, start, end)

\* GCP passes resource_id as a fourth positional argument of get_test_data
GCP_on_failure(self, s, p, start, end, resource_id) ==
    IF ~self.test_mode
    THEN [status |-> "raise", exc |-> "Exception", value |-> NoFrame, pos |-> p]
    ELSE call_get_test_data(s, p, <<start, end, "GCP", resource_id>>)

\* GCPCostProvider.get_cost_data(start_date, end_date, resource_id=None)
GCP_get_cost_data(self, s, p, start, end, resource_id, body_raises) ==
    IF self.test_mode
    THEN call_get_test_data(s, p, <<start, end, "GCP", resource_id>>)
    ELSE IF ~body_raises
         THEN [status |-> "ok", exc |-> "", pos |-> p,
               value |-> DataFrame(TestColumns,
                            <<RealRow(start, "GCP-RealService", RealCostGCP)>>)]
         ELSE GCP_on_failure(self, s, p, start, end, resource_id)

-----------------------------------------------------------------------------
(* Exact arithmetic: a rational is <<numerator, denominator>>, denominator  *)
(* positive, in lowest terms; a float is a rational or an IEEE special.     *)

RECURSIVE GCD(_, _)
GCD(a, b) == IF b = 0 THEN a ELSE GCD(b, a % b)

RNorm(n, d) == LET g == GCD(Abs(n), d) IN <<n \div g, d \div g>>

RAdd(x, y) ==
    LET g == GCD(x[2], y[2])
        l == (x[2] \div g) * y[2]
    IN  RNorm(x[1] * (l \div x[2]) + y[1] * (l \div y[2]), l)

RNeg(x) == <<0 - x[1], x[2]>>

RSub(x, y) == RAdd(x, RNeg(y))

RMul(x, y) ==
    LET a == RNorm(x[1], y[2])
        b == RNorm(y[1], x[2])
    IN  <<a[1] * b[1], a[2] * b[2]>>

RLeq(x, y) == x[1] * y[2] <= y[1] * x[2]

Num(r) == [kind |-> "num", r |-> r]
PosInf == [kind |-> "+inf", r |-> <<0, 1>>]
NegInf == [kind |-> "-inf", r |-> <<0, 1>>]
NaN == [kind |-> "nan", r |-> <<0, 1>>]

\* a + b for floats
FAdd(a, b) ==
    CASE a.kind = "nan" \/ b.kind = "nan" -> NaN
      [] a.kind = "num" /\ b.kind = "num" -> Num(RAdd(a.r, b.r))
      [] a.kind = "num" -> b
      [] b.kind = "num" -> a
      [] a.kind = b.kind -> a
      [] OTHER -> NaN

\* a * w for a float a and a positive rational w
FScale(a, w) == IF a.kind = "num" THEN Num(RMul(a.r, w)) ELSE a

\* 1 - a for a float a
FOneMinus(a) ==
    CASE a.kind = "num"  -> Num(RSub(<<1, 1>>, a.r))
      [] a.kind = "+inf" -> NegInf
      [] a.kind = "-inf" -> PosInf
      [] OTHER -> NaN

-----------------------------------------------------------------------------
(* finops_lib/scoring.py *)

\* a utilization that is missing: NaN in the column, which is neither > 0
\* nor == 0
MissingUtilization == -1

\* calculate_utilization_rate(data)
calculate_utilization_rate(data) ==
    IF "utilization" \notin data.columns THEN Raise("KeyError")
    ELSE LET utilized(r) == r.utilization # MissingUtilization /\ r.utilization > 0
         IN  Ok(IF Len(data.rows) > 0
                THEN RNorm(Len(SelectSeq(data.rows, utilized)), Len(data.rows))
                ELSE <<0, 1>>)

\* calculate_cloud_waste(data)
calculate_cloud_waste(data) ==
    IF "utilization" \notin data.columns THEN Raise("KeyError")
    ELSE LET waste(r) == r.utilization # MissingUtilization /\ r.utilization = 0
         IN  Ok(IF Len(data.rows) > 0
                THEN RNorm(Len(SelectSeq(data.rows, waste)), Len(data.rows))
                ELSE <<0, 1>>)

\* calculate_cost_allocation(data): rows whose tags hold a non-empty owner
calculate_cost_allocation(data) ==
    IF "tags" \notin data.columns THEN Raise("KeyError")
    ELSE LET allocated(r) == \E t \in r.tags : t[1] = "owner" /\ t[2] # ""
         IN  Ok(IF Len(data.rows) > 0
                THEN RNorm(Len(SelectSeq(data.rows, allocated)), Len(data.rows))
                ELSE <<0, 1>>)

\* data['output'].sum()
OutputSum(rows) == SumSeq([i \in 1..Len(rows) |-> rows[i].output])

\* calculate_unit_cost(data): a float
calculate_unit_cost(data) ==
    IF "cost" \notin data.columns \/ "output" \notin data.columns
    THEN Raise("KeyError")
    ELSE Ok(IF OutputSum(data.rows) > 0
            THEN Num(RNorm(CostSum(data.rows), OutputSum(data.rows)))
            ELSE PosInf)

\* calculate_discount_coverage(data)
calculate_discount_coverage(data) ==
    IF "discount" \notin data.columns \/ "cost" \notin data.columns
    THEN Raise("KeyError")
    ELSE LET discounted(r) == r.discount > 0
         IN  Ok(IF CostSum(data.rows) > 0
                THEN RNorm(CostSum(SelectSeq(data.rows, discounted)),
                           CostSum(data.rows))
                ELSE <<0, 1>>)

\* calculate_spend_variance(actual, forecast): a float
calculate_spend_variance(actual, fc) ==
    IF fc > 0 THEN Num(RNorm(Abs(actual - fc), fc)) ELSE PosInf

\* 1 / unit_cost if unit_cost != float('inf') else 0; a zero unit_cost is a
\* numpy float, whose division gives inf with a warning
UnitCostTerm(unit_cost) ==
    IF unit_cost.kind # "+inf"
    THEN IF unit_cost.r[1] = 0 THEN PosInf
         ELSE Num(<<unit_cost.r[2], unit_cost.r[1]>>)
    ELSE Num(<<0, 1>>)

WeightWaste == <<30, 100>>
WeightDiscount == <<25, 100>>
WeightAllocation == <<15, 100>>
WeightUnitCost == <<15, 100>>
WeightVariance == <<15, 100>>

\* the weighted sum of calculate_composite_score
WeightedSum(cloud_waste, discount_coverage, cost_allocation, unit_cost, spend_variance) ==
    FAdd(FAdd(FAdd(FAdd(
        FScale(FOneMinus(Num(cloud_waste)), WeightWaste),
        FScale(Num(discount_coverage), WeightDiscount)),
        FScale(Num(cost_allocation), WeightAllocation)),
        FScale(UnitCostTerm(unit_cost), WeightUnitCost)),
        FScale(FOneMinus(spend_variance), WeightVariance))

\* calculate_composite_score(data, forecast); given = FALSE: forecast is None
calculate_composite_score(data, given, fc) ==
    LET utilization_rate  == calculate_utilization_rate(data)
        cloud_waste       == calculate_cloud_waste(data)
        cost_allocation   == calculate_cost_allocation(data)
        unit_cost         == calculate_unit_cost(data)
        discount_coverage == calculate_discount_coverage(data)
    IN  IF utilization_rate.status = "raise" THEN utilization_rate
        ELSE IF cloud_waste.status = "raise" THEN cloud_waste
        ELSE IF cost_allocation.status = "raise" THEN cost_allocation
        ELSE IF unit_cost.status = "raise" THEN unit_cost
        ELSE IF discount_coverage.status = "raise" THEN discount_coverage
        ELSE IF ~given THEN Raise("TypeError")
        ELSE Ok(WeightedSum(cloud_waste.value, discount_coverage.value,
                            cost_allocation.value, unit_cost.value,
                            calculate_spend_variance(CostSum(data.rows), fc)))

-----------------------------------------------------------------------------
(* finops_lib/cli.py: one invocation of a report command *)

Commands == {"cost_by_service", "cost_by_region", "cost_efficiency_score"}

Days == 0..MaxDay

\* the values of --forecast the model tries
Forecasts == {0, 10, 100}

\* what the command line can say about --forecast: <<given, value>>.  Only
\* cost_efficiency_score has the option, and there it is required.
ForecastOptions(c) ==
    IF c = "cost_efficiency_score"
    THEN {<<TRUE, fc>> : fc \in Forecasts} \cup {<<FALSE, 0>>}
    ELSE {<<FALSE, 0>>}

NoOutput == [kind |-> "none", value |-> <<>>]

\* budgets.json does not exist: load_budgets() returns {}
NoBudgets == [k \in {} |-> 0]

NoBudgetArgs == [team |-> "", project |-> "", amount |-> 0]

NoBudget == [amount |-> 0, start_date |-> 0, end_date |-> 0]

InitCli ==
    /\ pc = "idle"
    /\ cmd = ""
    /\ start_date = 0
    /\ end_date = 0
    /\ test = FALSE
    /\ forecast = 0
    /\ stream = [i \in 1..StreamLen |-> 0]
    /\ rng_pos = 0
    /\ test_mode = [v \in Vendors |-> FALSE]
    /\ client = [v \in Vendors |-> FALSE]
    /\ fetched = [v \in Vendors |-> NoFrame]
    /\ combined_data = NoFrame
    /\ called = {}
    /\ failed = {}
    /\ output = NoOutput
    /\ error = ""
    /\ forecast_given = FALSE
    /\ calls = <<>>
    /\ budgets = NoBudgets
    /\ budget_args = NoBudgetArgs
    /\ budget = NoBudget
    /\ budget_sets = 0

\* the exit code of the process: 0 when the command returns, 1 when an
\* exception leaves it, 2 when click rejects the command line
ExitCode ==
    CASE pc = "done" -> 0
      [] pc = "raised" -> 1
      [] pc = "usage_error" -> 2
      [] OTHER -> -1

\* an entry of the call log
Call(fn, vendor, args) == [fn |-> fn, vendor |-> vendor, args |-> args]

\* "Initialize providers": the three constructors, which never raise
Construct(t, st, authAWS, authAzure, authGCP) ==
    /\ stream' = st
    /\ rng_pos' = 0
    /\ LET aws   == AWS_init(t, authAWS)
           azure == Azure_init(t, authAzure)
           gcp   == GCP_init(t, authGCP)
       IN  /\ test_mode' = [v \in Vendors |->
                              CASE v = "AWS" -> aws.test_mode
                                [] v = "Azure" -> azure.test_mode
                                [] OTHER -> gcp.test_mode]
           /\ client' = [v \in Vendors |->
                           CASE v = "AWS" -> aws.client
                             [] v = "Azure" -> azure.client
                             [] OTHER -> gcp.client]
    /\ calls' = calls \o
          <<Call("AWSCostProvider", "AWS", [test_mode |-> t]),
            Call("AzureCostProvider", "Azure",
                 [subscription_id |-> "test", test_mode |-> t]),
            Call("GCPCostProvider", "GCP",
                 [project_id |-> "test", test_mode |-> t])>>

\* The command starts: click parses the options, rejecting a command line
\* that lacks a required one, and the three providers are constructed.
Start(c, sd, ed, t, given, fc, st, authAWS, authAzure, authGCP) ==
    /\ cmd' = c
    /\ start_date' = sd
    /\ end_date' = ed
    /\ test' = t
    /\ forecast_given' = given
    /\ forecast' = fc
    /\ IF c = "cost_efficiency_score" /\ ~given
       THEN /\ pc' = "usage_error"
            /\ UNCHANGED <<stream, rng_pos, test_mode, client, calls>>
       ELSE /\ pc' = "fetch_aws"
            /\ Construct(t, st, authAWS, authAzure, authGCP)
    /\ UNCHANGED <<fetched, combined_data, called, failed, output, error>>
    /\ UNCHANGED budgetVars
    /\ UNCHANGED notCli

Invoke ==
    /\ pc = "idle"
    /\ \E c \in Commands, sd \in Days, ed \in Days, t \in BOOLEAN, st \in Streams,
          a1 \in AuthOutcomes, a2 \in AuthOutcomes, a3 \in AuthOutcomes :
          \E o \in ForecastOptions(c) :
              Start(c, sd, ed, t, o[1], o[2], st, a1, a2, a3)

\* the effect of one `x_data = x_provider.get_cost_data(start_date, end_date)`:
\* an exception ends the command, a result is kept and the next line runs
AfterFetch(v, r, next) ==
    /\ called' = called \cup {v}
    /\ calls' = Append(calls, Call("get_cost_data", v, <<start_date, end_date>>))
    /\ IF r.status = "raise"
       THEN /\ pc' = "raised"
            /\ error' = r.exc
            /\ failed' = failed \cup {v}
            /\ UNCHANGED <<fetched, rng_pos>>
       ELSE /\ pc' = next
            /\ fetched' = [fetched EXCEPT ![v] = r.value]
            /\ rng_pos' = r.pos % StreamLen
            /\ UNCHANGED <<error, failed>>
    /\ UNCHANGED <<cmd, start_date, end_date, test, forecast, stream,
                   test_mode, client, combined_data, output, forecast_given>>
    /\ UNCHANGED budgetVars
    /\ UNCHANGED notCli

Self(v) == [test_mode |-> test_mode[v], client |-> client[v]]

FetchAWS(api_raises) ==
    /\ pc = "fetch_aws"
    /\ AfterFetch("AWS",
           AWS_get_cost_data(Self("AWS"), stream, rng_pos, start_date, end_date,
                             api_raises),
           "fetch_azure")

\* the try block of the Azure adapter makes no call that can fail
FetchAzure ==
    /\ pc = "fetch_azure"
    /\ AfterFetch("Azure",
           Azure_get_cost_data(Self("Azure"), stream, rng_pos, start_date,
                               end_date, FALSE),
           "fetch_gcp")

\* nor does the try block of the GCP adapter
FetchGCP ==
    /\ pc = "fetch_gcp"
    /\ AfterFetch("GCP",
           GCP_get_cost_data(Self("GCP"), stream, rng_pos, start_date, end_date,
                             "None", FALSE),
           "combine")

\* combined_data = pd.concat([aws_data, azure_data, gcp_data])
Combine ==
    /\ pc = "combine"
    /\ combined_data' = Concat(fetched["AWS"], fetched["Azure"], fetched["GCP"])
    /\ pc' = "report"
    /\ UNCHANGED <<cmd, start_date, end_date, test, forecast, stream, rng_pos,
                   test_mode, client, fetched, called, failed, output, error,
                   forecast_given, calls>>
    /\ UNCHANGED budgetVars
    /\ UNCHANGED notCli

\* f"{team}-{project}"
BudgetKey(team, project) == team \o "-" \o project

\* the comparison `>=`, where track_budget compares with `>`; C11 is checked
\* against it
BudgetExceededOrMet(actual_spending, amount) == actual_spending >= amount

\* if actual_spending > budget['amount']
BudgetExceeded(actual_spending, amount) == actual_spending > amount

\* combined_data[combined_data['tags'].apply(lambda x: x.get('team') == team
\* and x.get('project') == project)]
FilterTeamProject(rows, team, project) ==
    LET matches(r) == <<"team", team>> \in r.tags /\ <<"project", project>> \in r.tags
    IN  SelectSeq(rows, matches)

\* the rest of track_budget: filter, sum and compare
TrackSpending(data, team, project, b) ==
    IF "tags" \notin data.columns
    THEN Raise("KeyError")
    ELSE LET actual_spending == CostSum(FilterTeamProject(data.rows, team, project))
         IN  Ok([budget |-> b.amount, actual_spending |-> actual_spending,
                 exceeded |-> BudgetExceeded(actual_spending, b.amount)])

\* what the command computes from the ledger
Compute(c, data, fc) ==
    CASE c = "cost_by_service" -> GroupBySum(data, "service")
      [] c = "cost_by_region" -> GroupBySum(data, "region")
      [] c = "track_budget" ->
           TrackSpending(data, budget_args.team, budget_args.project, budget)
      [] OTHER -> calculate_composite_score(data, TRUE, fc)

\* the rest of the command: compute, then print
Report ==
    /\ pc = "report"
    /\ calls' = IF cmd = "cost_efficiency_score"
                THEN Append(calls, Call("calculate_composite_score", "", <<forecast>>))
                ELSE calls
    /\ LET r == Compute(cmd, combined_data, forecast)
       IN  IF r.status = "raise"
           THEN /\ pc' = "raised"
                /\ error' = r.exc
                /\ UNCHANGED output
           ELSE /\ pc' = "done"
                /\ output' = [kind |-> cmd, value |-> r.value]
                /\ UNCHANGED error
    /\ UNCHANGED <<cmd, start_date, end_date, test, forecast, stream, rng_pos,
                   test_mode, client, fetched, combined_data, called, failed,
                   forecast_given>>
    /\ UNCHANGED budgetVars
    /\ UNCHANGED notCli

NextCli ==
    \/ Invoke
    \/ \E api_raises \in BOOLEAN : FetchAWS(api_raises)
    \/ FetchAzure
    \/ FetchGCP
    \/ Combine
    \/ Report

-----------------------------------------------------------------------------
(* finops_lib/cli.py: the budget commands.  set_budget runs to its end in   *)
(* one step; track_budget looks its budget up and then goes through the     *)
(* same fetch, combine and report steps as the report commands.             *)

MaxSets == 2

\* the values of --team and --project the model tries
TrackTeams == {"data", "data-project"}
TrackProjects == {"project-1", "1"}

\* the values of --amount, in cents
BudgetAmounts == {1000, 50500}

\* budgets[key] = value
Put(f, key, value) ==
    [k \in DOMAIN f \cup {key} |-> IF k = key THEN value ELSE f[k]]

\* set_budget(team, project, amount, start_date, end_date)
SetBudget(team, project, amount, sd, ed) ==
    /\ pc = "idle"
    /\ budgets' = Put(budgets, BudgetKey(team, project),
                      [amount |-> amount, start_date |-> sd, end_date |-> ed])
    /\ budget_args' = [team |-> team, project |-> project, amount |-> amount]
    /\ budget_sets' = budget_sets + 1
    /\ UNCHANGED <<pc, cmd, start_date, end_date, test, forecast, stream, rng_pos,
                   test_mode, client, fetched, combined_data, called, failed,
                   output, error, forecast_given, calls, budget>>
    /\ UNCHANGED notCli

\* the first budget of a store
SetFirstBudget ==
    /\ budget_sets = 0
    /\ \E tm \in TrackTeams, pr \in TrackProjects, amt \in BudgetAmounts :
          SetBudget(tm, pr, amt, 0, MaxDay)

\* any budget of a sequence of at most MaxSets
SetAnyBudget ==
    /\ budget_sets < MaxSets
    /\ \E tm \in TrackTeams, pr \in TrackProjects, amt \in BudgetAmounts :
          SetBudget(tm, pr, amt, 0, MaxDay)

\* track_budget up to "Initialize providers": the lookup of the budget
StartTrack(team, project, sd, ed, t, st, authAWS, authAzure, authGCP) ==
    /\ cmd' = "track_budget"
    /\ start_date' = sd
    /\ end_date' = ed
    /\ test' = t
    /\ budget_args' = [team |-> team, project |-> project, amount |-> 0]
    /\ IF BudgetKey(team, project) \notin DOMAIN budgets
       THEN /\ output' = [kind |-> "no_budget", value |-> <<>>]
            /\ pc' = "done"
            /\ UNCHANGED <<budget, stream, rng_pos, test_mode, client, calls>>
       ELSE /\ budget' = budgets[BudgetKey(team, project)]
            /\ pc' = "fetch_aws"
            /\ Construct(t, st, authAWS, authAzure, authGCP)
            /\ UNCHANGED output
    /\ UNCHANGED <<forecast, forecast_given, fetched, combined_data, called,
                   failed, error, budgets, budget_sets>>
    /\ UNCHANGED notCli

\* track_budget is invoked where the Azure and GCP credentials are in place
InvokeTrack ==
    /\ pc = "idle"
    /\ \E tm \in TrackTeams, pr \in TrackProjects, sd \in Days, ed \in Days,
          t \in BOOLEAN, st \in Streams, a1 \in AuthOutcomes :
          StartTrack(tm, pr, sd, ed, t, st, a1, "ok", "ok")

NextTrack ==
    \/ SetFirstBudget
    \/ InvokeTrack
    \/ \E api_raises \in BOOLEAN : FetchAWS(api_raises)
    \/ FetchAzure
    \/ FetchGCP
    \/ Combine
    \/ Report

NextBudget ==
    \/ SetAnyBudget
    \/ InvokeTrack
    \/ \E api_raises \in BOOLEAN : FetchAWS(api_raises)
    \/ FetchAzure
    \/ FetchGCP
    \/ Combine
    \/ Report

-----------------------------------------------------------------------------
(* Calls of get_test_data on its own: any dates, any cloud name, any draws *)

\* the cloud names the model passes: the three vendors and one the services
\* table does not know
CloudNames == Vendors \cup {"Other"}

NoGenArgs == [start |-> 0, end |-> 0, cloud_name |-> "", stream |-> <<>>, pos |-> 0]

InitGenerator ==
    /\ gen_args = NoGenArgs
    /\ generated = NoFrame

GetTestData ==
    /\ gen_args = NoGenArgs
    /\ \E start \in Days, end \in Days, cloud_name \in CloudNames,
          st \in Streams, p \in 0..(StreamLen - 1) :
          /\ gen_args' = [start |-> start, end |-> end, cloud_name |-> cloud_name,
                          stream |-> st, pos |-> p]
          /\ generated' = get_test_data(st, p, start, end, cloud_name).value
    /\ UNCHANGED notGenerator

NextGenerator == GetTestData

-----------------------------------------------------------------------------
(* Calls of calculate_composite_score on record sets that carry every       *)
(* column the function reads                                                *)

MaxScoreRows == 2

ScoreColumns == {"utilization", "tags", "cost", "output", "discount"}

\* utilization in percent, cost and discount in cents
ScoreRows ==
    [utilization : {0, 50, MissingUtilization},
     tags        : {{}, {<<"owner", "alice">>}},
     cost        : {0, 30},
     output      : {0, 1},
     discount    : {0, 5}]

NoCall == [given |-> FALSE, forecast |-> 0]

NotScored == [status |-> "none", value |-> <<>>, exc |-> ""]

InitScore ==
    /\ score_data = [columns |-> ScoreColumns, rows |-> <<>>]
    /\ score_args = NoCall
    /\ score = NotScored

\* the caller adds a record to the set it will score
AddRecord(r) ==
    /\ score.status = "none"
    /\ Len(score_data.rows) < MaxScoreRows
    /\ score_data' = [score_data EXCEPT !.rows = Append(@, r)]
    /\ UNCHANGED <<score_args, score>>
    /\ UNCHANGED notScore

\* score = calculate_composite_score(data, forecast)
Score(given, fc) ==
    /\ score.status = "none"
    /\ score_args' = [given |-> given, forecast |-> fc]
    /\ score' = calculate_composite_score(score_data, given, fc)
    /\ UNCHANGED score_data
    /\ UNCHANGED notScore

NextScore ==
    \/ \E r \in ScoreRows : AddRecord(r)
    \/ \E fc \in Forecasts : Score(TRUE, fc)
    \/ Score(FALSE, 0)

-----------------------------------------------------------------------------
(* finops_lib/dashboard/cost_analysis.py: create_cost_anomaly_chart         *)
(* The standard deviation is kept as its square, the z-score as its square: *)
(* abs(z) > t is decided as z*z > t*t.                                      *)

\* the elements of a finite set of integers in increasing order
RECURSIVE Sorted(_)
Sorted(S) ==
    IF S = {} THEN <<>>
    ELSE LET m == CHOOSE x \in S : \A y \in S : x <= y
         IN  <<m>> \o Sorted(S \ {m})

\* df[df['provider'].isin(providers)] when providers is given and not empty
FilterProviders(frame, providers) ==
    IF providers # {}
    THEN LET keep(r) == r.provider \in providers
         IN  [frame EXCEPT !.rows = SelectSeq(@, keep)]
    ELSE frame

\* df.groupby('date').agg(cost=('cost', 'sum')).reset_index(): one row for
\* every date, in date order
GroupByDate(rows) ==
    LET dates == Sorted({rows[i].date : i \in 1..Len(rows)})
        costOn(d) == [i \in 1..Len(rows) |->
                        IF rows[i].date = d THEN rows[i].cost ELSE 0]
    IN  [k \in 1..Len(dates) |->
            [date |-> dates[k], cost |-> SumSeq(costOn(dates[k]))]]

MaxWindow == 7
MinWindow == 2

\* window_size = min(7, len(daily_costs))
WindowSize(n) == Min(MaxWindow, n)

\* A variant of the guard below that lets a window of two points through;
\* C7 is checked against it.
WindowUsableFromTwo(window_size) == window_size >= MinWindow

\* if window_size > 2
WindowUsable(window_size) == window_size > MinWindow

\* the costs of the window of size w that ends at point i
Window(costs, w, i) == SubSeq(costs, i - w + 1, i)

Squares(xs) == [k \in 1..Len(xs) |-> xs[k] * xs[k]]

\* .rolling(window=w, center=False).mean() at point i: NaN until the window
\* is full
RollingMean(costs, w, i) ==
    IF i < w THEN NaN ELSE Num(RNorm(SumSeq(Window(costs, w, i)), w))

\* the square of .rolling(window=w, center=False).std() at point i
\* (sample variance, ddof = 1)
RollingVar(costs, w, i) ==
    IF i < w \/ w < 2 THEN NaN
    ELSE LET xs == Window(costs, w, i)
             S  == SumSeq(xs)
             Q  == SumSeq(Squares(xs))
         IN  Num(RNorm(w * Q - S * S, w * (w - 1)))

\* A variant of the z-score below that takes every division by a zero
\* standard deviation to be infinite; C8 is checked against it.
ZScoreSqInfOnZero(cost, mean, var) ==
    IF mean.kind # "num" \/ var.kind # "num" THEN NaN
    ELSE LET diff == RSub(<<cost, 1>>, mean.r)
         IN  IF var.r[1] = 0
             THEN PosInf
             ELSE Num(RMul(RMul(diff, diff), <<var.r[2], var.r[1]>>))

\* the square of (cost - rolling_mean) / rolling_std: x / 0 is inf and
\* 0 / 0 is NaN in pandas, neither raises
ZScoreSq(cost, mean, var) ==
    IF mean.kind # "num" \/ var.kind # "num" THEN NaN
    ELSE LET diff == RSub(<<cost, 1>>, mean.r)
         IN  IF var.r[1] = 0
             THEN IF diff[1] = 0 THEN NaN ELSE PosInf
             ELSE Num(RMul(RMul(diff, diff), <<var.r[2], var.r[1]>>))

\* A variant of the comparison below that also flags a z-score equal to the
\* threshold; C25 is checked against it.
IsAnomalyOrEqual(zsq, z_threshold) ==
    CASE zsq.kind = "nan" -> FALSE
      [] zsq.kind = "num" -> RLeq(RMul(z_threshold, z_threshold), zsq.r)
      [] OTHER -> TRUE

\* A variant written as not (abs(z_score) <= z_threshold), which is True for
\* a z-score that is NaN; C29 is checked against it.
IsAnomalyNotWithin(zsq, z_threshold) ==
    CASE zsq.kind = "nan" -> TRUE
      [] zsq.kind = "num" -> ~RLeq(zsq.r, RMul(z_threshold, z_threshold))
      [] OTHER -> TRUE

\* abs(z_score) > z_threshold: a comparison with NaN is False
IsAnomaly(zsq, z_threshold) ==
    CASE zsq.kind = "nan" -> FALSE
      [] zsq.kind = "num" -> ~RLeq(zsq.r, RMul(z_threshold, z_threshold))
      [] OTHER -> TRUE

\* the branch `if window_size > 2`: the four computed columns
ScoredPoints(daily, w, z_threshold) ==
    LET costs == [k \in 1..Len(daily) |-> daily[k].cost]
    IN  [i \in 1..Len(daily) |->
            LET mean == RollingMean(costs, w, i)
                var  == RollingVar(costs, w, i)
                zsq  == ZScoreSq(costs[i], mean, var)
            IN  [date |-> daily[i].date, cost |-> daily[i].cost,
                 rolling_mean |-> mean, rolling_std |-> var, z_score |-> zsq,
                 is_anomaly |-> IsAnomaly(zsq, z_threshold)]]

\* the else branch: daily_costs['is_anomaly'] = False
UnscoredPoints(daily) ==
    [i \in 1..Len(daily) |->
        [date |-> daily[i].date, cost |-> daily[i].cost,
         rolling_mean |-> NaN, rolling_std |-> NaN, z_score |-> NaN,
         is_anomaly |-> FALSE]]

\* daily_costs as create_cost_anomaly_chart leaves it for a frame that is
\* not empty
AnomalyFrame(frame, providers, z_threshold) ==
    LET daily == GroupByDate(FilterProviders(frame, providers).rows)
        window_size == WindowSize(Len(daily))
    IN  IF WindowUsable(window_size)
        THEN [columns |-> {"date", "cost", "rolling_mean", "rolling_std",
                           "z_score", "is_anomaly"},
              rows |-> ScoredPoints(daily, window_size, z_threshold)]
        ELSE [columns |-> {"date", "cost", "is_anomaly"},
              rows |-> UnscoredPoints(daily)]

\* anomalies = daily_costs[daily_costs['is_anomaly']]
Anomalies(frame) == LET flagged(r) == r.is_anomaly IN SelectSeq(frame.rows, flagged)


MaxSeries == 8
MaxSameDay == 1

ChartColumns == {"date", "provider", "cost"}

AnomalyCosts == {10, 50}

\* z_threshold: the default 2.0 and a low one
DefaultThreshold == <<2, 1>>
Thresholds == {<<1, 2>>, DefaultThreshold}

ProviderFilters == {{}, {"AWS"}}

EmptyChartInput == [columns |-> ChartColumns, rows |-> <<>>, date_dtype |-> "object"]

NoAnomalyCall == [providers |-> {}, z_threshold |-> DefaultThreshold]

InitAnomaly ==
    /\ anomaly_df = EmptyChartInput
    /\ anomaly_args = NoAnomalyCall
    /\ daily_costs = NoFrame
    /\ anomaly_pc = "input"

LastDate(rows) == rows[Len(rows)].date

\* The caller's frame grows in date order: the first row of a day is an AWS
\* row of the next day; the first day may have further rows.
AddDay(cost) ==
    /\ anomaly_pc = "input"
    /\ LET d == IF anomaly_df.rows = <<>> THEN 0 ELSE LastDate(anomaly_df.rows) + 1
       IN  /\ d < MaxSeries
           /\ anomaly_df' = [anomaly_df EXCEPT !.rows =
                                Append(@, [date |-> d, provider |-> "AWS", cost |-> cost])]
    /\ UNCHANGED <<anomaly_args, daily_costs, anomaly_pc>>
    /\ UNCHANGED notAnomaly

AddSameDayRow(cost) ==
    /\ anomaly_pc = "input"
    /\ anomaly_df.rows # <<>>
    /\ LastDate(anomaly_df.rows) = 0
    /\ Len(anomaly_df.rows) <= MaxSameDay
    /\ anomaly_df' = [anomaly_df EXCEPT !.rows =
                         Append(@, [date |-> 0, provider |-> "Azure", cost |-> cost])]
    /\ UNCHANGED <<anomaly_args, daily_costs, anomaly_pc>>
    /\ UNCHANGED notAnomaly

\* the caller parses the date column before the call
ConvertAnomalyDates ==
    /\ anomaly_pc = "input"
    /\ anomaly_df.date_dtype = "object"
    /\ anomaly_df' = [anomaly_df EXCEPT !.date_dtype = "datetime64"]
    /\ UNCHANGED <<anomaly_args, daily_costs, anomaly_pc>>
    /\ UNCHANGED notAnomaly

\* `if providers: df = df[...]` rebinds df to a new frame; without it
\* `df['date'] = pd.to_datetime(df['date'])` writes the caller's frame
DatesConverted(frame, providers) ==
    IF providers = {} /\ frame.date_dtype # "datetime64"
    THEN [frame EXCEPT !.date_dtype = "datetime64"]
    ELSE frame

\* create_cost_anomaly_chart(df, providers, z_threshold)
CreateAnomalyChart(providers, z_threshold) ==
    /\ anomaly_pc = "input"
    /\ anomaly_args' = [providers |-> providers, z_threshold |-> z_threshold]
    /\ IF anomaly_df.rows = <<>>
       THEN UNCHANGED <<anomaly_df, daily_costs>>
       ELSE /\ anomaly_df' = DatesConverted(anomaly_df, providers)
            /\ daily_costs' = AnomalyFrame(anomaly_df, providers, z_threshold)
    /\ anomaly_pc' = "charted"
    /\ UNCHANGED notAnomaly

NextAnomaly ==
    \/ \E c \in AnomalyCosts : AddDay(c)
    \/ \E c \in AnomalyCosts : AddSameDayRow(c)
    \/ ConvertAnomalyDates
    \/ \E ps \in ProviderFilters, t \in Thresholds : CreateAnomalyChart(ps, t)

-----------------------------------------------------------------------------
(* finops_lib/dashboard/cost_analysis.py: create_cost_forecast_chart *)

\* daily_costs[daily_costs['provider'] == provider] after
\* historical_df.groupby(['date', 'provider']).agg(cost=('cost', 'sum')):
\* one row for every date of the provider, in date order
ProviderData(rows, provider) ==
    LET own(r) == r.provider = provider
    IN  GroupByDate(SelectSeq(rows, own))

\* x = (provider_data['date'] - provider_data['date'].min()).dt.days
DayOffsets(provider_data) ==
    [k \in 1..Len(provider_data) |-> provider_data[k].date - provider_data[1].date]

Products(xs, ys) == [k \in 1..Len(xs) |-> xs[k] * ys[k]]

NoFit == [ok |-> FALSE, slope |-> <<0, 1>>, intercept |-> <<0, 1>>]

\* np.polyfit(x, y, 1): the least-squares slope and intercept.  The x of one
\* provider are distinct day offsets; a single x leaves the line undetermined
\* (polyfit scales a zero column by its zero norm) and gives no usable fit.
Polyfit(x, y) ==
    LET n   == Len(x)
        Sx  == SumSeq(x)
        Sy  == SumSeq(y)
        Sxx == SumSeq(Squares(x))
        Sxy == SumSeq(Products(x, y))
        slope == RNorm(n * Sxy - Sx * Sy, n * Sxx - Sx * Sx)
    IN  IF n * Sxx - Sx * Sx = 0
        THEN NoFit
        ELSE [ok |-> TRUE, slope |-> slope,
              intercept |-> RMul(RSub(<<Sy, 1>>, RMul(slope, <<Sx, 1>>)), <<1, n>>)]

\* A variant of the guard below that fits a line through a single point;
\* C10 is checked against it.
CanFitOnePoint(x) == Len(x) > 0

\* if len(x) > 1
CanFit(x) == Len(x) > 1

\* A variant of the forecast dates below that starts on the last historical
\* day (days=i instead of days=i+1); C9 is checked against it.
ForecastDatesFromLast(last_date, forecast_days) ==
    [i \in 1..forecast_days |-> last_date + (i - 1)]

\* forecast_dates = [last_date + timedelta(days=i+1) for i in range(forecast_days)]
ForecastDates(last_date, forecast_days) ==
    [i \in 1..forecast_days |-> last_date + (i - 1) + 1]

\* forecast_y = slope * forecast_x + intercept
ForecastY(fit, forecast_x) ==
    [k \in 1..Len(forecast_x) |->
        RAdd(RMul(fit.slope, <<forecast_x[k], 1>>), fit.intercept)]

\* one pass of `for provider in all_providers`: the forecast trace of the
\* provider, if one is added
ProviderTrace(rows, provider, forecast_days) ==
    LET provider_data == ProviderData(rows, provider)
        x == DayOffsets(provider_data)
        y == [k \in 1..Len(provider_data) |-> provider_data[k].cost]
    IN  IF CanFit(x)
        THEN LET fit == Polyfit(x, y)
                 last_date == provider_data[Len(provider_data)].date
                 forecast_dates == ForecastDates(last_date, forecast_days)
                 forecast_x == [k \in 1..Len(forecast_dates) |->
                                   forecast_dates[k] - provider_data[1].date]
             IN  IF fit.ok
                 THEN [forecast |-> TRUE, error |-> FALSE, fit |-> fit,
                       dates |-> forecast_dates,
                       values |-> ForecastY(fit, forecast_x)]
                 ELSE [forecast |-> FALSE, error |-> TRUE, fit |-> NoFit,
                       dates |-> <<>>, values |-> <<>>]
        ELSE [forecast |-> FALSE, error |-> FALSE, fit |-> NoFit,
              dates |-> <<>>, values |-> <<>>]

\* the traces of all_providers = daily_costs['provider'].unique()
ForecastTraces(frame, forecast_days, providers) ==
    LET rows == FilterProviders(frame, providers).rows
        all_providers == {rows[i].provider : i \in 1..Len(rows)}
    IN  [p \in all_providers |-> ProviderTrace(rows, p, forecast_days)]

MaxHistRows == 3
MaxHistDay == 2
MaxHorizon == 2

HistProviders == <<"AWS", "Azure">>

HistCosts == {100, 120}

NoForecastCall == [forecast_days |-> 0, providers |-> {}]

NoTraces == <<>>

InitForecast ==
    /\ historical_df = EmptyChartInput
    /\ forecast_args = NoForecastCall
    /\ traces = NoTraces
    /\ forecast_pc = "input"

\* the place of a row in (date, provider) order
RowKey(r) == r.date * Len(HistProviders)
             + (CHOOSE k \in 1..Len(HistProviders) : HistProviders[k] = r.provider)

\* The caller's frame grows in (date, provider) order; a date and provider
\* may have several rows.
AddHistoryRow(date, provider, cost) ==
    /\ forecast_pc = "input"
    /\ Len(historical_df.rows) < MaxHistRows
    /\ LET r == [date |-> date, provider |-> provider, cost |-> cost]
       IN  /\ historical_df.rows # <<>> =>
                  RowKey(historical_df.rows[Len(historical_df.rows)]) <= RowKey(r)
           /\ historical_df' = [historical_df EXCEPT !.rows = Append(@, r)]
    /\ UNCHANGED <<forecast_args, traces, forecast_pc>>
    /\ UNCHANGED notForecast

\* the caller parses the date column before the call
ConvertHistoryDates ==
    /\ forecast_pc = "input"
    /\ historical_df.date_dtype = "object"
    /\ historical_df' = [historical_df EXCEPT !.date_dtype = "datetime64"]
    /\ UNCHANGED <<forecast_args, traces, forecast_pc>>
    /\ UNCHANGED notForecast

\* create_cost_forecast_chart(historical_df, forecast_days, providers)
CreateForecastChart(forecast_days, providers) ==
    /\ forecast_pc = "input"
    /\ forecast_args' = [forecast_days |-> forecast_days, providers |-> providers]
    /\ IF historical_df.rows = <<>>
       THEN /\ UNCHANGED <<historical_df, traces>>
            /\ forecast_pc' = "charted"
       ELSE LET added == ForecastTraces(historical_df, forecast_days, providers)
            IN  /\ historical_df' = DatesConverted(historical_df, providers)
                /\ IF \E p \in DOMAIN added : added[p].error
                   THEN /\ forecast_pc' = "raised"
                        /\ UNCHANGED traces
                   ELSE /\ forecast_pc' = "charted"
                        /\ traces' = added
    /\ UNCHANGED notForecast

NextForecast ==
    \/ \E d \in 0..MaxHistDay, k \in 1..Len(HistProviders), c \in HistCosts :
          AddHistoryRow(d, HistProviders[k], c)
    \/ ConvertHistoryDates
    \/ \E n \in 0..MaxHorizon, ps \in ProviderFilters : CreateForecastChart(n, ps)

-----------------------------------------------------------------------------
(* azure_finops_lib/web.py: interpret_score.  Scores, utilizations and     *)
(* coverage are in hundredths.                                              *)

MaxSuggestions == 5

\* the static suggestions of the three score bands
ExcellentSuggestions ==
    <<"Consider sharing your best practices with other teams",
      "Monitor for any changes in usage patterns",
      "Review any remaining unoptimized resources">>

GoodSuggestions ==
    <<"Review underutilized reserved instances",
      "Check for resources running in non-business hours",
      "Analyze resource sizing for potential downsizing">>

PoorSuggestions ==
    <<"Implement automated resource scheduling",
      "Review and consolidate redundant resources",
      "Consider reserved instances for stable workloads",
      "Implement strict tagging policies for better cost allocation">>

LowUtilization == "Multiple resources have low utilization - consider rightsizing"

LowCoverage ==
    "Low reserved instance coverage - analyze stable workloads for RI opportunities"

\* if score >= 0.8 ... elif score >= 0.6 ... else
StaticSuggestions(s) ==
    IF s >= 80 THEN ExcellentSuggestions
    ELSE IF s >= 60 THEN GoodSuggestions
    ELSE PoorSuggestions

\* 'utilization' in cost_data.columns and cost_data['utilization'].mean() < 0.6;
\* the mean of an empty column is NaN, which is below nothing
UtilizationLow(cost_data) ==
    /\ "utilization" \in cost_data.columns
    /\ Len(cost_data.rows) > 0
    /\ SumSeq([i \in 1..Len(cost_data.rows) |-> cost_data.rows[i].utilization])
           < 60 * Len(cost_data.rows)

\* len(cost_data[cost_data['is_reserved_instance']])
ReservedRows(cost_data) ==
    Cardinality({i \in 1..Len(cost_data.rows) : cost_data.rows[i].is_reserved_instance})

\* ri_coverage < 0.3
CoverageLow(cost_data) == 100 * ReservedRows(cost_data) < 30 * Len(cost_data.rows)

\* a return that keeps every suggestion; C18 is checked against it
KeepAll(suggestions) == suggestions

\* suggestions[:5]
Limit(suggestions) == SubSeq(suggestions, 1, Min(MaxSuggestions, Len(suggestions)))

\* interpret_score(score, cost_data)['suggestions']
interpret_score(s, cost_data) ==
    LET static == StaticSuggestions(s)
        withUtilization == IF UtilizationLow(cost_data)
                           THEN Append(static, LowUtilization)
                           ELSE static
    IN  IF "is_reserved_instance" \in cost_data.columns
        THEN IF Len(cost_data.rows) = 0
             THEN Raise("ZeroDivisionError")
             ELSE Ok(Limit(IF CoverageLow(cost_data)
                           THEN Append(withUtilization, LowCoverage)
                           ELSE withUtilization))
        ELSE Ok(Limit(withUtilization))

MaxCostRows == 2

\* the scores the model passes: one inside each band and the two band edges
ScoreValues == {30, 60, 70, 80, 95}

\* the rows of a cost_data frame
CostRows == [utilization : {20, 60, 90}, is_reserved_instance : BOOLEAN]

RECURSIVE RowSeqs(_)
RowSeqs(n) ==
    IF n = 0 THEN {<<>>}
    ELSE RowSeqs(n - 1) \cup {Append(q, r) : q \in RowSeqs(n - 1), r \in CostRows}

NoInterpretArgs == [score |-> 0, cost_data |-> NoFrame]

NoInterpretation == [status |-> "none", exc |-> "", value |-> <<>>]

InitInterpret ==
    /\ interpret_args = NoInterpretArgs
    /\ interpretation = NoInterpretation

\* one call, on a frame that may or may not have the two optional columns
InterpretScore ==
    /\ interpretation = NoInterpretation
    /\ \E s \in ScoreValues, rows \in RowSeqs(MaxCostRows),
          cols \in SUBSET {"utilization", "is_reserved_instance"} :
          LET cost_data == [columns |-> cols \cup {"cost"}, rows |-> rows]
          IN  /\ interpret_args' = [score |-> s, cost_data |-> cost_data]
              /\ interpretation' = interpret_score(s, cost_data)
    /\ UNCHANGED notInterpret

NextInterpret == InterpretScore

-----------------------------------------------------------------------------
(* azure_finops_lib/metrics.py and web.py: the four exported gauges, the    *)
(* refresh cycle update_all_metrics that the background scheduler runs, and *)
(* the /metrics route that reads the gauges from a request thread.  Every   *)
(* statement of the cycle that touches a gauge is a step of its own, so a   *)
(* read can fall between any two of them.                                   *)

MaxCycles == 2

GaugeNames == {"AZURE_COST_TOTAL", "AZURE_BUDGET_USAGE", "AZURE_RESOURCE_COST",
               "AZURE_EFFICIENCY_SCORE"}

\* a gauge without children
EmptyGauge == [labels \in {} |-> 0]

NoGauges == [g \in GaugeNames |-> EmptyGauge]

\* the strings of the model in the order Python sorts them
Alphabetical == <<"Storage", "Virtual Machines", "dev-rg", "disk", "prod-rg",
                  "sub-1", "sub-2", "vm">>

IndexOf(x) == CHOOSE i \in 1..Len(Alphabetical) : Alphabetical[i] = x

\* tuple a sorts before tuple b (both of the same length)
TupleLess(a, b) ==
    \E k \in 1..Len(a) :
        /\ \A j \in 1..(k - 1) : a[j] = b[j]
        /\ IndexOf(a[k]) < IndexOf(b[k])

\* the keys of a groupby result, in the order .items() yields them
RECURSIVE SortedKeys(_)
SortedKeys(S) ==
    IF S = {} THEN <<>>
    ELSE LET first == CHOOSE a \in S : \A b \in S \ {a} : TupleLess(a, b)
         IN  <<first>> \o SortedKeys(S \ {first})

\* cost_data.groupby(keys)['cost'].sum(): a KeyError when a key column is
\* missing, else group -> total
GroupByKeys(data, keys) ==
    IF \E k \in 1..Len(keys) : keys[k] \notin data.columns
    THEN Raise("KeyError")
    ELSE LET labelsOf(r) == [k \in 1..Len(keys) |-> r[keys[k]]]
             groups == {labelsOf(data.rows[i]) : i \in 1..Len(data.rows)}
             costOf(g) == [i \in 1..Len(data.rows) |->
                             IF labelsOf(data.rows[i]) = g
                             THEN data.rows[i].cost ELSE 0]
         IN  Ok([g \in groups |-> SumSeq(costOf(g))])

\* the (labels, value) items of a groupby result or a dict, in order
Items(totals) ==
    LET keys == SortedKeys(DOMAIN totals)
    IN  [i \in 1..Len(keys) |-> <<keys[i], totals[keys[i]]>>]

\* sum(scores) over floats
RECURSIVE FSum(_)
FSum(scores) ==
    IF scores = <<>> THEN Num(<<0, 1>>) ELSE FAdd(Head(scores), FSum(Tail(scores)))

\* cost_data['utilization'].mean(): NaN over no row (utilization in hundredths)
UtilizationScore(cost_data) ==
    IF cost_data.rows = <<>>
    THEN NaN
    ELSE Num(RNorm(SumSeq([i \in 1..Len(cost_data.rows) |->
                             cost_data.rows[i].utilization]),
                   100 * Len(cost_data.rows)))

\* max(0, 1 - abs(total_cost - forecast) / forecast)
VarianceScore(cost_data, forecast_amount) ==
    LET total_cost == SumSeq([i \in 1..Len(cost_data.rows) |-> cost_data.rows[i].cost])
        sign == IF forecast_amount < 0 THEN -1 ELSE 1
        variance == RNorm(sign * Abs(total_cost - forecast_amount),
                          Abs(forecast_amount))
        rest == RSub(<<1, 1>>, variance)
    IN  IF RLeq(rest, <<0, 1>>) THEN Num(<<0, 1>>) ELSE Num(rest)

\* 1 - ((group_costs / total_cost) ** 2).sum()
DistributionScore(cost_data) ==
    LET group_costs == GroupByKeys(cost_data, <<"resource_group">>).value
        keys == SortedKeys(DOMAIN group_costs)
        total_cost == SumSeq([i \in 1..Len(keys) |-> group_costs[keys[i]]])
        squares == SumSeq([i \in 1..Len(keys) |->
                             group_costs[keys[i]] * group_costs[keys[i]]])
    IN  Num(RNorm(total_cost * total_cost - squares, total_cost * total_cost))

\* cost_data['is_reserved_instance'].mean(): NaN over no row
CoverageScore(cost_data) ==
    IF cost_data.rows = <<>>
    THEN NaN
    ELSE Num(RNorm(ReservedRows(cost_data), Len(cost_data.rows)))

\* azure_finops_lib/scoring.py calculate_composite_score(cost_data, forecast):
\* the mean of the scores that are available, 0.5 when none is
AzureScore(cost_data, forecast_amount) ==
    LET total_cost == SumSeq([i \in 1..Len(cost_data.rows) |-> cost_data.rows[i].cost])
        utilization_score == IF "utilization" \in cost_data.columns
                             THEN <<UtilizationScore(cost_data)>> ELSE <<>>
        variance_score == IF forecast_amount # 0 /\ cost_data.rows # <<>>
                          THEN <<VarianceScore(cost_data, forecast_amount)>>
                          ELSE <<>>
        distribution_score == IF "resource_group" \in cost_data.columns
                                 /\ total_cost > 0
                              THEN <<DistributionScore(cost_data)>> ELSE <<>>
        ri_coverage == IF "is_reserved_instance" \in cost_data.columns
                       THEN <<CoverageScore(cost_data)>> ELSE <<>>
        scores == utilization_score \o variance_score \o distribution_score
                      \o ri_coverage
    IN  IF scores = <<>>
        THEN Num(<<1, 2>>)
        ELSE FScale(FSum(scores), <<1, Len(scores)>>)

\* calculate_composite_score(cost_data) without a forecast, as an exact
\* fraction.  The frames of a refresh cycle carry neither a 'utilization' nor
\* an 'is_reserved_instance' column, so only the resource group distribution
\* contributes; without it the score is 0.5.
AzureCompositeScore(data) == AzureScore(data, 0).r

\* cost_data[cost_data['subscription_id'] == sub_id]
SubscriptionData(data, sub_id) ==
    LET ofSub(r) == r.subscription_id = sub_id
    IN  [columns |-> data.columns, rows |-> SelectSeq(data.rows, ofSub)]

\* the scores dict of update_all_metrics: a KeyError when the frame has no
\* 'subscription_id' column and there is a subscription to look for
Scores(data, subscription_ids) ==
    IF subscription_ids # <<>> /\ "subscription_id" \notin data.columns
    THEN Raise("KeyError")
    ELSE Ok([l \in {<<subscription_ids[i]>> : i \in 1..Len(subscription_ids)} |->
                AzureCompositeScore(SubscriptionData(data, l[1]))])

\* AzureCostProvider.get_budgets(): the list under 'value' of the budget file
get_budgets(budget_file) == [kind |-> "list", value |-> budget_file.value]

\* usage_percent = (current_spend / total_amount) * 100, as an exact fraction
UsagePercent(b) == RNorm(b.currentSpend * 100, b.amount)

\* the body of update_budget_metrics after the clear: `budget_data['value']`
\* is a TypeError on a list; on a dict every budget of it sets its child
BudgetUsage(budget_data) ==
    IF budget_data.kind # "dict"
    THEN Raise("TypeError")
    ELSE Ok([l \in {<<budget_data.value[i].subscription_id, budget_data.value[i].name>> :
                      i \in 1..Len(budget_data.value)} |->
               LET b == CHOOSE b \in {budget_data.value[i] : i \in 1..Len(budget_data.value)} :
                            <<b.subscription_id, b.name>> = l
               IN  UsagePercent(b)])

NoCycleData == [collected |-> FALSE, cost_data |-> NoFrame,
                budget_data |-> [kind |-> "list", value |-> <<>>],
                scores |-> EmptyGauge]

NoObservation == [taken |-> FALSE, during |-> "", gauges |-> NoGauges,
                  previous |-> NoGauges, data |-> NoCycleData]

InitMetrics ==
    /\ gauges = NoGauges
    /\ refresh_pc = "idle"
    /\ refresh_data = NoCycleData
    /\ pending = <<>>
    /\ cycles = 0
    /\ gauges_before = NoGauges
    /\ observed = NoObservation

\* the cycle ends: update_all_metrics returns
EndCycle ==
    /\ refresh_pc' = "idle"
    /\ cycles' = cycles + 1

\* update_all_metrics up to "Update all metrics": the provider is built and
\* cost_data, budget_data and the scores are collected.  An exception here
\* (the provider's data files, a missing column) is logged by the handler of
\* update_all_metrics and the cycle ends.
Collect(raises, cost_data, budget_file, subscription_ids) ==
    /\ refresh_pc = "idle"
    /\ cycles < MaxCycles
    /\ gauges_before' = gauges
    /\ LET scores == Scores(cost_data, subscription_ids)
       IN  IF raises \/ scores.status = "raise"
           THEN /\ refresh_data' = NoCycleData
                /\ EndCycle
           ELSE /\ refresh_data' = [collected |-> TRUE, cost_data |-> cost_data,
                                    budget_data |-> get_budgets(budget_file),
                                    scores |-> scores.value]
                /\ refresh_pc' = "clear_cost_total"
                /\ UNCHANGED cycles
    /\ UNCHANGED <<gauges, pending, observed>>
    /\ UNCHANGED notMetrics

\* gauge._metrics.clear()
Clear(g, next) ==
    /\ gauges' = [gauges EXCEPT ![g] = EmptyGauge]
    /\ refresh_pc' = next
    /\ UNCHANGED <<refresh_data, pending, cycles, gauges_before, observed>>
    /\ UNCHANGED notMetrics

\* AZURE_COST_TOTAL._metrics.clear()
ClearCostTotal ==
    /\ refresh_pc = "clear_cost_total"
    /\ Clear("AZURE_COST_TOTAL", "clear_resource_cost")

\* AZURE_RESOURCE_COST._metrics.clear()
ClearResourceCost ==
    /\ refresh_pc = "clear_resource_cost"
    /\ Clear("AZURE_RESOURCE_COST", "group_service")

\* a groupby whose KeyError would leave update_all_metrics instead of being
\* handled in update_cost_metrics: the cycle ends there
GroupEndingCycle(keys, loop, after) ==
    /\ LET r == GroupByKeys(refresh_data.cost_data, keys)
       IN  IF r.status = "raise"
           THEN /\ EndCycle
                /\ pending' = <<>>
           ELSE /\ pending' = Items(r.value)
                /\ refresh_pc' = IF r.value = EmptyGauge THEN after ELSE loop
                /\ UNCHANGED cycles
    /\ UNCHANGED <<gauges, refresh_data, gauges_before, observed>>
    /\ UNCHANGED notMetrics

\* a groupby of update_cost_metrics: its KeyError is logged by the function's
\* handler and the function returns; else the loop over its items starts
Group(keys, loop, after) ==
    /\ LET r == GroupByKeys(refresh_data.cost_data, keys)
       IN  IF r.status = "raise"
           THEN /\ refresh_pc' = "clear_budget"
                /\ pending' = <<>>
           ELSE /\ pending' = Items(r.value)
                /\ refresh_pc' = IF r.value = EmptyGauge THEN after ELSE loop
    /\ UNCHANGED <<gauges, refresh_data, cycles, gauges_before, observed>>
    /\ UNCHANGED notMetrics

\* service_costs = cost_data.groupby(['subscription_id', 'service'])['cost'].sum()
GroupService ==
    /\ refresh_pc = "group_service"
    /\ Group(<<"subscription_id", "service">>, "set_cost_total", "group_resource")

\* resource_costs = cost_data.groupby(['subscription_id', 'resource_group',
\* 'resource_type'])['cost'].sum()
GroupResource ==
    /\ refresh_pc = "group_resource"
    /\ Group(<<"subscription_id", "resource_group", "resource_type">>,
             "set_resource_cost", "clear_budget")

\* one turn of a loop: gauge.labels(...).set(value)
SetChild(g, after) ==
    /\ pending # <<>>
    /\ gauges' = [gauges EXCEPT ![g] = Put(gauges[g], Head(pending)[1], Head(pending)[2])]
    /\ pending' = Tail(pending)
    /\ IF Tail(pending) = <<>>
       THEN IF after = "idle"
            THEN EndCycle
            ELSE refresh_pc' = after /\ UNCHANGED cycles
       ELSE UNCHANGED <<refresh_pc, cycles>>
    /\ UNCHANGED <<refresh_data, gauges_before, observed>>
    /\ UNCHANGED notMetrics

SetCostTotal ==
    /\ refresh_pc = "set_cost_total"
    /\ SetChild("AZURE_COST_TOTAL", "group_resource")

SetResourceCost ==
    /\ refresh_pc = "set_resource_cost"
    /\ SetChild("AZURE_RESOURCE_COST", "clear_budget")

\* AZURE_BUDGET_USAGE._metrics.clear()
ClearBudgetUsage ==
    /\ refresh_pc = "clear_budget"
    /\ Clear("AZURE_BUDGET_USAGE", "set_budget_usage")

\* the loop of update_budget_metrics
SetBudgetUsage ==
    /\ refresh_pc = "set_budget_usage"
    /\ LET r == BudgetUsage(refresh_data.budget_data)
       IN  IF r.status = "raise"
           THEN UNCHANGED gauges
           ELSE gauges' = [gauges EXCEPT !["AZURE_BUDGET_USAGE"] = r.value]
    /\ refresh_pc' = "clear_score"
    /\ UNCHANGED <<refresh_data, pending, cycles, gauges_before, observed>>
    /\ UNCHANGED notMetrics

\* AZURE_EFFICIENCY_SCORE._metrics.clear(), and the loop over scores.items()
\* starts
ClearEfficiencyScore ==
    /\ refresh_pc = "clear_score"
    /\ gauges' = [gauges EXCEPT !["AZURE_EFFICIENCY_SCORE"] = EmptyGauge]
    /\ pending' = Items(refresh_data.scores)
    /\ IF refresh_data.scores = EmptyGauge
       THEN EndCycle
       ELSE refresh_pc' = "set_score" /\ UNCHANGED cycles
    /\ UNCHANGED <<refresh_data, gauges_before, observed>>
    /\ UNCHANGED notMetrics

SetEfficiencyScore ==
    /\ refresh_pc = "set_score"
    /\ SetChild("AZURE_EFFICIENCY_SCORE", "idle")

\* GET /metrics: get_metrics() renders the registry as it is at that moment
ReadMetrics ==
    /\ ~observed.taken
    /\ observed' = [taken |-> TRUE, during |-> refresh_pc, gauges |-> gauges,
                    previous |-> gauges_before, data |-> refresh_data]
    /\ UNCHANGED <<gauges, refresh_pc, refresh_data, pending, cycles, gauges_before>>
    /\ UNCHANGED notMetrics

\* the rows get_cost_data can return in the model: one per subscription and
\* service, the service fixing resource group and type
CostRow(sub_id, service) ==
    [subscription_id |-> sub_id, service |-> service,
     resource_group |-> IF service = "Storage" THEN "prod-rg" ELSE "dev-rg",
     resource_type |-> IF service = "Storage" THEN "disk" ELSE "vm",
     cost |-> 100]

CostFrames ==
    LET a == CostRow("sub-1", "Storage")
        b == CostRow("sub-1", "Virtual Machines")
        c == CostRow("sub-2", "Storage")
    IN  {<<>>, <<a>>, <<c>>, <<a, b>>, <<a, c>>, <<b, c>>}

\* the columns of the frame: all the update functions group by, or all but
\* 'resource_type'
ColumnSets ==
    {{"subscription_id", "service", "resource_group", "resource_type", "cost"},
     {"subscription_id", "service", "resource_group", "cost"}}

\* the contents of the budget file
BudgetFiles ==
    {[value |-> <<>>],
     [value |-> <<[subscription_id |-> "sub-1", name |-> "prod-rg",
                   currentSpend |-> 50, amount |-> 100]>>]}

\* config['azure_subscriptions']
SubscriptionLists == {<<>>, <<"sub-1", "sub-2">>}

Refresh ==
    \E raises \in BOOLEAN, rows \in CostFrames, cols \in ColumnSets,
       budget_file \in BudgetFiles, subscription_ids \in SubscriptionLists :
        Collect(raises, [columns |-> cols, rows |-> rows], budget_file,
                subscription_ids)

\* the refresh cycle alone, without a request of /metrics
NextRefresh ==
    \/ Refresh
    \/ ClearCostTotal
    \/ ClearResourceCost
    \/ GroupService
    \/ SetCostTotal
    \/ GroupResource
    \/ SetResourceCost
    \/ ClearBudgetUsage
    \/ SetBudgetUsage
    \/ ClearEfficiencyScore
    \/ SetEfficiencyScore

NextMetrics ==
    \/ Refresh
    \/ ClearCostTotal
    \/ ClearResourceCost
    \/ GroupService
    \/ SetCostTotal
    \/ GroupResource
    \/ SetResourceCost
    \/ ClearBudgetUsage
    \/ SetBudgetUsage
    \/ ClearEfficiencyScore
    \/ SetEfficiencyScore
    \/ ReadMetrics

-----------------------------------------------------------------------------
(* azure_finops_lib/web.py: the route /api/efficiency-score.  The frame of  *)
(* the provider is an input: its columns come from the sample file of the   *)
(* provider, so the two optional columns may or may not be there.           *)

\* the score as interpret_score compares it with 0.8 and 0.6: whole
\* hundredths; every comparison with NaN is False, as with a score of 0
Hundredths(score_value) ==
    IF score_value.kind = "num"
    THEN (100 * score_value.r[1]) \div score_value.r[2]
    ELSE 0

\* cost_data[cost_data['subscription_id'].isin(selected_subscriptions)]
SelectSubscriptions(cost_data, selected_subscriptions) ==
    LET selected(r) == \E i \in 1..Len(selected_subscriptions) :
                           r.subscription_id = selected_subscriptions[i]
    IN  [columns |-> cost_data.columns, rows |-> SelectSeq(cost_data.rows, selected)]

\* cost_data[cost_data['subscription_name'] == sub_name]
NamedData(cost_data, sub_name) ==
    LET named(r) == r.subscription_name = sub_name
    IN  [columns |-> cost_data.columns, rows |-> SelectSeq(cost_data.rows, named)]

\* one entry of the payload: the score and its interpretation
ScoreEntry(cost_data, forecast_amount) ==
    LET score_value == AzureScore(cost_data, forecast_amount)
    IN  [score |-> score_value,
         interpretation |-> interpret_score(Hundredths(score_value), cost_data)]

\* get_efficiency_score: one entry per subscription name and one for the
\* whole frame; any exception becomes a response with status 500
get_efficiency_score(cost_data, forecast_amount, selected_subscriptions) ==
    LET filtered == IF selected_subscriptions # <<>>
                    THEN SelectSubscriptions(cost_data, selected_subscriptions)
                    ELSE cost_data
        names == {filtered.rows[i].subscription_name : i \in 1..Len(filtered.rows)}
        scores == [n \in names \cup {"overall"} |->
                     IF n = "overall"
                     THEN ScoreEntry(filtered, forecast_amount)
                     ELSE ScoreEntry(NamedData(filtered, n), forecast_amount)]
    IN  IF \E n \in DOMAIN scores : scores[n].interpretation.status = "raise"
        THEN [status |-> 500, records |-> Len(filtered.rows), scores |-> <<>>]
        ELSE [status |-> 200, records |-> Len(filtered.rows), scores |-> scores]

\* the rows a provider frame is made of
RequestRows ==
    [subscription_id : {"sub-1"}, subscription_name : {"Production"},
     resource_group : {"prod-rg", "dev-rg"}, cost : {100},
     utilization : {20, 90}, is_reserved_instance : BOOLEAN]
      \cup [subscription_id : {"sub-2"}, subscription_name : {"Development"},
            resource_group : {"dev-rg"}, cost : {300},
            utilization : {90}, is_reserved_instance : {FALSE}]

RECURSIVE RequestFrames(_)
RequestFrames(n) ==
    IF n = 0 THEN {<<>>}
    ELSE RequestFrames(n - 1)
             \cup {Append(q, r) : q \in RequestFrames(n - 1), r \in RequestRows}

\* data.get('subscriptions', []): none, one that is there, one that is not
SelectedSubscriptions == {<<>>, <<"sub-1">>, <<"sub-9">>}

\* float(data.get('forecast', 1000))
ForecastAmounts == {1000, 200, 0}

NoRequestArgs == [cost_data |-> NoFrame, forecast |-> 0, subscriptions |-> <<>>]

NoResponse == [status |-> 0, records |-> 0, scores |-> <<>>]

InitRequest ==
    /\ request_args = NoRequestArgs
    /\ response = NoResponse

\* one POST of /api/efficiency-score
PostEfficiencyScore ==
    /\ response.status = NoResponse.status
    /\ \E rows \in RequestFrames(MaxCostRows),
          cols \in SUBSET {"utilization", "is_reserved_instance"},
          forecast_amount \in ForecastAmounts,
          selected_subscriptions \in SelectedSubscriptions :
          LET cost_data == [columns |-> cols \cup {"subscription_id",
                                "subscription_name", "resource_group", "cost"},
                            rows |-> rows]
          IN  /\ request_args' = [cost_data |-> cost_data,
                                  forecast |-> forecast_amount,
                                  subscriptions |-> selected_subscriptions]
              /\ response' = get_efficiency_score(cost_data, forecast_amount,
                                                  selected_subscriptions)
    /\ UNCHANGED notRequest

NextRequest == PostEfficiencyScore

-----------------------------------------------------------------------------
(* azure_finops_lib/azure.py: AzureCostProvider.  A subscription id and a   *)
(* ResourceId are sequences of characters, so that the pattern search of    *)
(* get_cost_data is computed on the text as the code computes it.           *)

MaxSampleRows == 2

\* three subscriptions; the id of the second one contains the id of the first
Sub1 == <<"s", "1">>
Sub10 == <<"s", "1", "0">>
Sub2 == <<"s", "2">>

\* "/subscriptions/<id>/resourceGroups/...", shortened to "/<id>/"
ResourceIdOf(sub_id) == <<"/">> \o sub_id \o <<"/">>

\* pattern in text, for a pattern without regular expression operators
Contains(text, pattern) ==
    \E i \in 1..(Len(text) + 1) :
        /\ i + Len(pattern) - 1 <= Len(text)
        /\ SubSeq(text, i, i + Len(pattern) - 1) = pattern

\* Series.str.contains('|'.join(ids)): a search for any of the alternatives;
\* the join of no id is the empty pattern, which is found in every text
StrContainsAny(text, ids) ==
    IF ids = <<>>
    THEN Contains(text, <<>>)
    ELSE \E k \in 1..Len(ids) : Contains(text, ids[k])

\* __init__: a list is kept, one id becomes a list of one, nothing the empty list
SubscriptionIds(subscription_ids) ==
    CASE subscription_ids.kind = "list" -> subscription_ids.value
      [] subscription_ids.kind = "str" /\ subscription_ids.value # <<>> ->
             <<subscription_ids.value>>
      [] OTHER -> <<>>

\* get_cost_data: the sample rows inside the date range whose ResourceId
\* matches the joined subscription ids
get_cost_data(rows, ids, start, end) ==
    LET inRange(r) == r.UsageDateTime >= start /\ r.UsageDateTime <= end
        matches(r) == StrContainsAny(r.ResourceId, ids)
    IN  SelectSeq(SelectSeq(rows, inRange), matches)

\* the rows of cost_management_sample.json
SampleRows ==
    {[subscription |-> s, ResourceId |-> ResourceIdOf(s), UsageDateTime |-> d] :
        s \in {Sub1, Sub10, Sub2}, d \in 0..MaxDay}

RECURSIVE SampleFiles(_)
SampleFiles(n) ==
    IF n = 0 THEN {<<>>}
    ELSE SampleFiles(n - 1)
             \cup {Append(q, r) : q \in SampleFiles(n - 1), r \in SampleRows}

\* the subscription_ids argument of the constructor
SubscriptionArguments ==
    {[kind |-> "none", value |-> <<>>],
     [kind |-> "str", value |-> Sub1],
     [kind |-> "list", value |-> <<>>],
     [kind |-> "list", value |-> <<Sub1>>],
     [kind |-> "list", value |-> <<Sub1, Sub2>>]}

NotConstructed == [constructed |-> FALSE, ids |-> <<>>]

NotReturned == [called |-> FALSE, rows |-> <<>>]

InitAzure ==
    /\ azure_subscription_ids = NotConstructed
    /\ sample_rows = <<>>
    /\ returned_rows = NotReturned

\* AzureCostProvider(subscription_ids), which ends with _load_test_data()
AzureCostProvider ==
    /\ ~azure_subscription_ids.constructed
    /\ \E subscription_ids \in SubscriptionArguments,
          rows \in SampleFiles(MaxSampleRows) :
          /\ azure_subscription_ids' =
                 [constructed |-> TRUE, ids |-> SubscriptionIds(subscription_ids)]
          /\ sample_rows' = rows
    /\ UNCHANGED returned_rows
    /\ UNCHANGED notAzure

\* provider.get_cost_data(start_date, end_date)
GetCostData ==
    /\ azure_subscription_ids.constructed
    /\ ~returned_rows.called
    /\ \E start \in 0..MaxDay, end \in 0..MaxDay :
          returned_rows' = [called |-> TRUE,
                            rows |-> get_cost_data(sample_rows,
                                                   azure_subscription_ids.ids,
                                                   start, end)]
    /\ UNCHANGED <<azure_subscription_ids, sample_rows>>
    /\ UNCHANGED notAzure

NextAzure == AzureCostProvider \/ GetCostData

-----------------------------------------------------------------------------
(* Specifications: the whole program, and one per component with the     *)
(* others standing still                                                  *)

Init == InitCli /\ InitScore /\ InitAnomaly /\ InitForecast /\ InitGenerator
            /\ InitInterpret /\ InitMetrics /\ InitRequest /\ InitAzure

Next == NextCli \/ NextBudget \/ NextScore \/ NextAnomaly \/ NextForecast
            \/ NextGenerator \/ NextInterpret \/ NextMetrics \/ NextRequest
            \/ NextAzure

Spec == Init /\ [][Next]_vars

SpecCli == Init /\ [][NextCli]_vars

SpecTrack == Init /\ [][NextTrack]_vars

SpecBudget == Init /\ [][NextBudget]_vars

SpecScore == Init /\ [][NextScore]_vars

SpecAnomaly == Init /\ [][NextAnomaly]_vars

SpecForecast == Init /\ [][NextForecast]_vars

SpecGenerator == Init /\ [][NextGenerator]_vars

SpecInterpret == Init /\ [][NextInterpret]_vars

SpecMetrics == Init /\ [][NextMetrics]_vars

SpecRefresh == Init /\ [][NextRefresh]_vars

SpecRequest == Init /\ [][NextRequest]_vars

SpecAzure == Init /\ [][NextAzure]_vars

-----------------------------------------------------------------------------
(* Properties of the report cycle and the adapters (SpecCli) *)

\* the sum of f over the finite set S of arguments
RECURSIVE SumOver(_, _)
SumOver(f, S) ==
    IF S = {} THEN 0
    ELSE LET x == CHOOSE y \in S : TRUE
         IN  f[x] + SumOver(f, S \ {x})

\* every row of frame a is a row of frame b
RowsWithin(a, b) ==
    \A i \in 1..Len(a.rows) : \E j \in 1..Len(b.rows) : b.rows[j] = a.rows[i]

\* C1: when the get_cost_data of one provider fails during a report cycle, the
\* cycle is not ended by it: the other providers are still collected and a
\* finished cycle holds every record they returned.
C1_PartialFailureTolerated ==
    failed # {} =>
        /\ pc # "raised"
        /\ pc = "done" =>
              /\ called = Vendors
              /\ \A v \in Vendors \ failed : RowsWithin(fetched[v], combined_data)

\* C2: the get_cost_data of an adapter in live mode does not raise to the
\* caller (a failure is recovered by falling back to synthetic data).
C2_LiveFailureFallsBack ==
    \A v \in Vendors : ~test_mode[v] => v \notin failed

\* C3: the get_cost_data of an adapter in synthetic mode never raises and
\* returns synthetic records of its own vendor.
C3_SyntheticNeverRaises ==
    \A v \in Vendors :
        (test_mode[v] /\ v \in called) =>
            /\ v \notin failed
            /\ \A i \in 1..Len(fetched[v].rows) :
                  \E k \in 1..Len(Services(v)) :
                      fetched[v].rows[i].service = Services(v)[k]

\* C4: for the ledger of a cycle and each grouping dimension (service,
\* region), group-and-sum yields totals whose sum is the sum of cost over all
\* records of the ledger.
C4_GroupSumsPartition ==
    (cmd \in {"cost_by_service", "cost_by_region"}
        /\ failed = {} /\ pc \in {"done", "raised"}) =>
        /\ pc = "done"
        /\ SumOver(output.value, DOMAIN output.value) = CostSum(combined_data.rows)

-----------------------------------------------------------------------------
(* Properties of the composite score (SpecScore) *)

\* C5: for a record set that is not empty, with total output > 0, and a
\* forecast > 0, calculate_composite_score returns a number in [0, 1].
C5_ScoreInUnitInterval ==
    (score.status # "none" /\ score_args.given /\ score_args.forecast > 0
        /\ score_data.rows # <<>> /\ OutputSum(score_data.rows) > 0) =>
        /\ score.status = "ok"
        /\ score.value.kind = "num"
        /\ RLeq(<<0, 1>>, score.value.r)
        /\ RLeq(score.value.r, <<1, 1>>)

\* C6: for an empty record set calculate_composite_score returns exactly 0.5,
\* with or without a forecast, and does not raise.
C6_EmptyScoreIsHalf ==
    (score.status # "none" /\ score_data.rows = <<>>) =>
        /\ score.status = "ok"
        /\ score.value = Num(<<1, 2>>)

\* the sub-scores calculate_composite_score computed from the scored records
WasteOf == calculate_cloud_waste(score_data).value
DiscountOf == calculate_discount_coverage(score_data).value
AllocationOf == calculate_cost_allocation(score_data).value
UnitCostOf == calculate_unit_cost(score_data).value
VarianceOf == calculate_spend_variance(CostSum(score_data.rows), score_args.forecast)

\* a call of calculate_composite_score has ended
Scored == score.status # "none"

\* the unit-cost term is available: there is output (and a cost to divide by)
UnitCostAvailable == OutputSum(score_data.rows) > 0 /\ CostSum(score_data.rows) > 0

\* the variance term is available: a forecast > 0 was supplied
VarianceAvailable == score_args.given /\ score_args.forecast > 0

\* the weighted terms <<weight, value>> of the sub-scores that are available
AvailableTerms ==
    <<<<WeightWaste, RSub(<<1, 1>>, WasteOf)>>,
      <<WeightDiscount, DiscountOf>>,
      <<WeightAllocation, AllocationOf>>>>
    \o (IF UnitCostAvailable
        THEN <<<<WeightUnitCost,
                 RNorm(OutputSum(score_data.rows), CostSum(score_data.rows))>>>>
        ELSE <<>>)
    \o (IF VarianceAvailable
        THEN <<<<WeightVariance, RSub(<<1, 1>>, VarianceOf.r)>>>>
        ELSE <<>>)

\* the sum of r[i] over a sequence of fractions
RECURSIVE RSum(_)
RSum(rs) == IF rs = <<>> THEN <<0, 1>> ELSE RAdd(Head(rs), RSum(Tail(rs)))

\* the weighted sum of the available terms over the sum of their weights
RenormalizedScore ==
    LET products == [i \in 1..Len(AvailableTerms) |->
                        RMul(AvailableTerms[i][1], AvailableTerms[i][2])]
        weights  == RSum([i \in 1..Len(AvailableTerms) |-> AvailableTerms[i][1]])
    IN  RMul(RSum(products), <<weights[2], weights[1]>>)

\* C21: the composite score is the weighted sum of the available sub-scores
\* (weights 0.30 waste, 0.25 discount coverage, 0.15 cost allocation, 0.15
\* unit cost, 0.15 variance), the weights of the available terms renormalized
\* to sum to 1 when the unit-cost term (no output) or the variance term (no
\* forecast > 0) is left out.
C21_WeightsRenormalized ==
    (Scored /\ ~(OutputSum(score_data.rows) > 0 /\ CostSum(score_data.rows) = 0)) =>
        /\ score.status = "ok"
        /\ score.value = Num(RenormalizedScore)

\* what the variance term added to the score: the score less the score the
\* same records would have with a variance of exactly 1
VarianceContribution ==
    FAdd(score.value,
         FScale(WeightedSum(WasteOf, DiscountOf, AllocationOf, UnitCostOf,
                            Num(<<1, 1>>)), <<-1, 1>>))

\* C22: the variance term of a computed score is never negative: with a
\* forecast > 0 it is clamped at 0 when |total_cost - forecast| exceeds the
\* forecast, and with a forecast that is not > 0 it adds nothing to the score.
C22_VarianceTermNotNegative ==
    (score.status = "ok" /\ UnitCostTerm(UnitCostOf).kind = "num") =>
        /\ VarianceContribution.kind = "num"
        /\ RLeq(<<0, 1>>, VarianceContribution.r)
        /\ ~VarianceAvailable => VarianceContribution.r = <<0, 1>>

\* what the unit-cost term added to the score: the score less the score the
\* same records would have with no output
UnitCostContribution ==
    FAdd(score.value,
         FScale(WeightedSum(WasteOf, DiscountOf, AllocationOf, PosInf, VarianceOf),
                <<-1, 1>>))

\* C23: the unit-cost term of a computed score is finite: with a forecast > 0
\* it is 0.15 * total_output / total_cost when there is output and a cost, and
\* 0 otherwise, also for records with output and a total cost of 0.
C23_UnitCostTermFinite ==
    (score.status = "ok" /\ VarianceAvailable) =>
        /\ UnitCostContribution.kind = "num"
        /\ UnitCostContribution.r =
              IF UnitCostAvailable
              THEN RMul(WeightUnitCost,
                        RNorm(OutputSum(score_data.rows), CostSum(score_data.rows)))
              ELSE <<0, 1>>

\* the records that are waste: utilization 0, or no utilization at all
WasteRecords ==
    {i \in 1..Len(score_data.rows) :
        score_data.rows[i].utilization \in {0, MissingUtilization}}

\* C24: the waste sub-score of a computed score is 1 minus the fraction of
\* records whose utilization is 0 or missing: the score is the one the
\* weighted sum gives for that fraction.
C24_MissingUtilizationIsWaste ==
    (score.status = "ok" /\ score_data.rows # <<>>) =>
        score.value =
            WeightedSum(RNorm(Cardinality(WasteRecords), Len(score_data.rows)),
                        DiscountOf, AllocationOf, UnitCostOf, VarianceOf)

-----------------------------------------------------------------------------
(* Properties of the anomaly chart (SpecAnomaly) *)

\* the rows of the caller's frame the call keeps
ChartedRows ==
    LET kept(r) == anomaly_args.providers = {} \/ r.provider \in anomaly_args.providers
    IN  SelectSeq(anomaly_df.rows, kept)

\* the days of the daily-cost series
ChartedDates == {ChartedRows[i].date : i \in 1..Len(ChartedRows)}

\* the first point of the trailing window of at most MaxWindow points that
\* ends at point i
TrailingStart(i) == IF i > MaxWindow THEN i - MaxWindow + 1 ELSE 1

\* the costs of the trailing window that ends at point i are all equal
ZeroVarianceWindow(i) ==
    \A j \in TrailingStart(i)..i : daily_costs.rows[j].cost = daily_costs.rows[i].cost

\* C7: a daily-cost series of fewer than 3 points has no point flagged as an
\* anomaly and no z-score computed, whatever the costs and the threshold.
C7_FewPointsNoAnomaly ==
    (anomaly_pc = "charted" /\ Cardinality(ChartedDates) < 3) =>
        /\ Len(daily_costs.rows) = Cardinality(ChartedDates)
        /\ \A i \in 1..Len(daily_costs.rows) : ~daily_costs.rows[i].is_anomaly
        /\ "z_score" \notin daily_costs.columns

\* two daily points of different cost, built from three rows, charted with
\* the low threshold
C7_TwoPointsCharted ==
    /\ anomaly_pc = "charted"
    /\ Len(anomaly_df.rows) = 3
    /\ anomaly_args.z_threshold = <<1, 2>>
    /\ Len(daily_costs.rows) = 2
    /\ daily_costs.rows[1].cost # daily_costs.rows[2].cost

\* C8: the call does not raise, and a point whose trailing window has zero
\* variance is not flagged; a constant series of 7 or more points has no
\* anomaly.
C8_ZeroVarianceNotFlagged ==
    anomaly_pc = "charted" =>
        /\ \A i \in 1..Len(daily_costs.rows) :
              ZeroVarianceWindow(i) => ~daily_costs.rows[i].is_anomaly
        /\ (Len(daily_costs.rows) >= MaxWindow
               /\ \A i \in 1..Len(daily_costs.rows) :
                     daily_costs.rows[i].cost = daily_costs.rows[1].cost) =>
              Anomalies(daily_costs) = <<>>

\* a constant series of 7 or more points was charted: the standard deviation
\* of a full window is 0 and the z-score of its last point is 0 / 0
C8_ConstantSeriesCharted ==
    /\ anomaly_pc = "charted"
    /\ Len(daily_costs.rows) >= MaxWindow
    /\ \A i \in 1..Len(daily_costs.rows) :
          daily_costs.rows[i].cost = daily_costs.rows[1].cost
    /\ "z_score" \in daily_costs.columns
    /\ daily_costs.rows[MaxWindow].rolling_std = Num(<<0, 1>>)
    /\ daily_costs.rows[MaxWindow].z_score = NaN

\* the costs of the daily series
SeriesCost(i) == daily_costs.rows[i].cost

\* the size of the window for the charted series: min(7, n)
SeriesWindow == IF Len(daily_costs.rows) < 7 THEN Len(daily_costs.rows) ELSE 7

\* the sum, and the sum of squares, of the costs of the SeriesWindow points
\* that end at point i
WindowSum(i) ==
    SumOver([j \in 1..Len(daily_costs.rows) |-> SeriesCost(j)],
            (i - SeriesWindow + 1)..i)

WindowSquares(i) ==
    SumOver([j \in 1..Len(daily_costs.rows) |-> SeriesCost(j) * SeriesCost(j)],
            (i - SeriesWindow + 1)..i)

\* |cost - mean| / std > tn / td for the window that ends at point i, with
\* mean = S / w and std^2 = (w * Q - S^2) / (w * (w - 1)), cleared of
\* fractions: (w * cost - S)^2 * (w - 1) * td^2 > tn^2 * w * (w * Q - S^2)
ZExceeds(i, tn, td) ==
    LET w == SeriesWindow
        S == WindowSum(i)
        Q == WindowSquares(i)
    IN  (w * SeriesCost(i) - S) * (w * SeriesCost(i) - S) * (w - 1) * td * td
            > tn * tn * w * (w * Q - S * S)

\* the same with equality: the z-score of point i is exactly the threshold
ZEquals(i, tn, td) ==
    LET w == SeriesWindow
        S == WindowSum(i)
        Q == WindowSquares(i)
    IN  (w * SeriesCost(i) - S) * (w * SeriesCost(i) - S) * (w - 1) * td * td
            = tn * tn * w * (w * Q - S * S)

\* C25: in a charted series of n >= 3 daily points, a point that closes a
\* trailing window of min(7, n) points is flagged exactly when its distance
\* from the mean of that window, over the standard deviation of the window,
\* is strictly greater than the threshold; a z-score equal to the threshold
\* is not flagged.
C25_FlaggedIffZAboveThreshold ==
    (anomaly_pc = "charted" /\ Len(daily_costs.rows) >= 3) =>
        \A i \in SeriesWindow..Len(daily_costs.rows) :
            daily_costs.rows[i].is_anomaly <=>
                ZExceeds(i, anomaly_args.z_threshold[1], anomaly_args.z_threshold[2])

\* a charted series whose last point has a z-score equal to the threshold,
\* and is not flagged
C25_ZEqualsThreshold ==
    /\ anomaly_pc = "charted"
    /\ Len(daily_costs.rows) >= 3
    /\ SeriesCost(Len(daily_costs.rows)) # SeriesCost(1)
    /\ ZEquals(Len(daily_costs.rows), anomaly_args.z_threshold[1],
               anomaly_args.z_threshold[2])
    /\ ~daily_costs.rows[Len(daily_costs.rows)].is_anomaly

\* C29: a point with fewer than w - 1 predecessors in the charted series
\* (w = min(7, n)) is never flagged, whatever its cost; so in a series of 3
\* to 7 points only the last point can be flagged.
C29_EarlyPointsNeverFlagged ==
    anomaly_pc = "charted" =>
        /\ \A i \in 1..Len(daily_costs.rows) :
              i - 1 < SeriesWindow - 1 => ~daily_costs.rows[i].is_anomaly
        /\ Len(daily_costs.rows) \in 3..7 =>
              \A i \in 1..(Len(daily_costs.rows) - 1) : ~daily_costs.rows[i].is_anomaly

\* a series of 3 to 7 points whose first point differs from all the others
\* and is not flagged, while its last point is
C29_OnlyLastFlagged ==
    /\ anomaly_pc = "charted"
    /\ Len(daily_costs.rows) \in 3..7
    /\ \A i \in 2..(Len(daily_costs.rows) - 1) : SeriesCost(i) # SeriesCost(1)
    /\ ~daily_costs.rows[1].is_anomaly
    /\ daily_costs.rows[Len(daily_costs.rows)].is_anomaly

-----------------------------------------------------------------------------
(* Properties of the forecast chart (SpecForecast) *)

\* the provider is among those the call charts
Included(p) == forecast_args.providers = {} \/ p \in forecast_args.providers

\* the days on which the provider has a row
SeriesDates(p) ==
    {historical_df.rows[i].date :
        i \in {j \in 1..Len(historical_df.rows) : historical_df.rows[j].provider = p}}

\* the cost of the provider on day d
DailyCost(p, d) ==
    SumSeq([i \in 1..Len(historical_df.rows) |->
              IF historical_df.rows[i].provider = p /\ historical_df.rows[i].date = d
              THEN historical_df.rows[i].cost ELSE 0])

SetMin(S) == CHOOSE x \in S : \A y \in S : x <= y

SetMax(S) == CHOOSE x \in S : \A y \in S : y <= x

\* the providers of the caller's frame
ProvidersPresent ==
    {historical_df.rows[i].provider : i \in 1..Len(historical_df.rows)}

\* The line a * x + b is the least-squares line of the provider's points
\* (d - first, DailyCost(p, d)): its residuals sum to 0 and are orthogonal to
\* x (the normal equations, cleared of denominators).
IsLeastSquaresLine(p, a, b) ==
    LET first == SetMin(SeriesDates(p))
        resid == [d \in SeriesDates(p) |->
                    DailyCost(p, d) * a[2] * b[2]
                        - a[1] * b[2] * (d - first) - b[1] * a[2]]
        moment == [d \in SeriesDates(p) |-> (d - first) * resid[d]]
    IN  /\ SumOver(resid, SeriesDates(p)) = 0
        /\ SumOver(moment, SeriesDates(p)) = 0

\* v is the value of the line a * x + b at x
OnLine(v, a, b, x) ==
    v[1] * a[2] * b[2] = v[2] * (a[1] * b[2] * x + b[1] * a[2])

\* C9: for every provider with at least 2 daily points and every horizon N the
\* forecast has exactly N points, the k-th being the value at day offset
\* last_offset + k of the least-squares line over all the provider's points;
\* the points (0, 100) and (1, 120) give 140 at offset 2.
C9_ForecastIsLeastSquaresLine ==
    forecast_pc # "input" =>
        \A p \in ProvidersPresent :
            (Included(p) /\ Cardinality(SeriesDates(p)) >= 2) =>
                /\ forecast_pc = "charted"
                /\ p \in DOMAIN traces
                /\ traces[p].forecast
                /\ Len(traces[p].values) = forecast_args.forecast_days
                /\ LET a == traces[p].fit.slope
                       b == traces[p].fit.intercept
                       last_offset == SetMax(SeriesDates(p)) - SetMin(SeriesDates(p))
                   IN  /\ IsLeastSquaresLine(p, a, b)
                       /\ \A k \in 1..forecast_args.forecast_days :
                             OnLine(traces[p].values[k], a, b, last_offset + k)
                /\ (/\ Cardinality(SeriesDates(p)) = 2
                    /\ SetMax(SeriesDates(p)) = SetMin(SeriesDates(p)) + 1
                    /\ DailyCost(p, SetMin(SeriesDates(p))) = 100
                    /\ DailyCost(p, SetMax(SeriesDates(p))) = 120
                    /\ forecast_args.forecast_days >= 1) =>
                      traces[p].values[1] = <<140, 1>>

\* the AWS points (0, 100) and (1, 120) were charted with a horizon of at
\* least one day, and the first forecast point is 140
C9_TwoPointsForecast ==
    /\ forecast_pc = "charted"
    /\ Included("AWS")
    /\ SeriesDates("AWS") = {0, 1}
    /\ DailyCost("AWS", 0) = 100
    /\ DailyCost("AWS", 1) = 120
    /\ forecast_args.forecast_days >= 1
    /\ traces["AWS"].values[1] = <<140, 1>>

\* C10: a provider with exactly one daily point gets no forecast points and
\* causes no error, and the other providers of the call still get theirs.
C10_SinglePointNoForecast ==
    (forecast_pc # "input"
        /\ \E p \in ProvidersPresent :
              Included(p) /\ Cardinality(SeriesDates(p)) = 1) =>
        /\ forecast_pc = "charted"
        /\ \A p \in ProvidersPresent :
              Included(p) =>
                  /\ p \in DOMAIN traces
                  /\ Cardinality(SeriesDates(p)) = 1 =>
                        (~traces[p].forecast /\ traces[p].values = <<>>)
                  /\ Cardinality(SeriesDates(p)) >= 2 =>
                        /\ traces[p].forecast
                        /\ Len(traces[p].values) = forecast_args.forecast_days

\* AWS with two daily points and Azure with one were charted together with a
\* horizon of at least one day
C10_OnePointBesideTwo ==
    /\ forecast_pc = "charted"
    /\ forecast_args.providers = {}
    /\ forecast_args.forecast_days >= 1
    /\ Cardinality(SeriesDates("AWS")) = 2
    /\ Cardinality(SeriesDates("Azure")) = 1
    /\ traces["AWS"].forecast
    /\ Len(traces["AWS"].values) = forecast_args.forecast_days
    /\ ~traces["Azure"].forecast


\* the ledger rows track_budget counts for a team and project: those whose
\* tags give both
MatchingRows(team, project) ==
    {i \in 1..Len(combined_data.rows) :
        /\ <<"team", team>> \in combined_data.rows[i].tags
        /\ <<"project", project>> \in combined_data.rows[i].tags}

\* the total cost of these rows
MatchingSpend(team, project) ==
    SumOver([i \in 1..Len(combined_data.rows) |-> combined_data.rows[i].cost],
            MatchingRows(team, project))

\* a track_budget run has printed its comparison
TrackReported ==
    /\ cmd = "track_budget"
    /\ pc = "done"
    /\ output.kind = "track_budget"

\* C11: a track_budget run that prints a comparison reports the budget as
\* exceeded exactly when the total cost of the ledger rows tagged with the
\* team and the project is strictly greater than the amount stored for them;
\* spending equal to the amount is within budget.
C11_OverBudgetIffStrictlyGreater ==
    TrackReported =>
        /\ output.value.actual_spending =
               MatchingSpend(budget_args.team, budget_args.project)
        /\ output.value.budget =
               budgets[BudgetKey(budget_args.team, budget_args.project)].amount
        /\ output.value.exceeded <=>
               (MatchingSpend(budget_args.team, budget_args.project) >
                budgets[BudgetKey(budget_args.team, budget_args.project)].amount)

\* a run whose matching spend is positive and equals the budget, reported as
\* within budget
C11_SpendEqualsBudget ==
    /\ TrackReported
    /\ MatchingSpend(budget_args.team, budget_args.project) > 0
    /\ MatchingSpend(budget_args.team, budget_args.project) =
           budgets[BudgetKey(budget_args.team, budget_args.project)].amount
    /\ ~output.value.exceeded


\* what track_budget finds for a team and project in a budget store
Lookup(store, team, project) ==
    IF BudgetKey(team, project) \in DOMAIN store
    THEN <<"budget", store[BudgetKey(team, project)]>>
    ELSE <<"no budget">>

\* C12: a budget belongs to the pair (team, project): a set_budget for one
\* pair leaves what track_budget finds for every other pair as it was, so a
\* pair that was never set keeps reporting that it has no budget.
C12_BudgetsKeyedByPair ==
    [][budget_sets' = budget_sets + 1 =>
          \A tm \in TrackTeams, pr \in TrackProjects :
              <<tm, pr>> # <<budget_args'.team, budget_args'.project>> =>
                  Lookup(budgets', tm, pr) = Lookup(budgets, tm, pr)]_vars


\* the command has ended, one way or another
Ended == pc \in {"done", "raised", "usage_error"}

\* C14: cost_efficiency_score invoked with only --start-date, --end-date and
\* --test, without the forecast option, ends with exit code 0 and has printed
\* its score report.
C14_NoForecastExitsZero ==
    (cmd = "cost_efficiency_score" /\ test /\ ~forecast_given /\ Ended) =>
        /\ ExitCode = 0
        /\ output.kind = "cost_efficiency_score"

\* how many calls of function fn the command made
CallsOf(fn) == Cardinality({i \in DOMAIN calls : calls[i].fn = fn})

\* how many of them on vendor v with exactly these arguments
CallsWith(fn, v, args) ==
    Cardinality({i \in DOMAIN calls :
                   calls[i].fn = fn /\ calls[i].vendor = v /\ calls[i].args = args})

\* how many get_cost_data calls reached the provider of vendor v
FetchesOf(v) ==
    Cardinality({i \in DOMAIN calls :
                   calls[i].fn = "get_cost_data" /\ calls[i].vendor = v})

\* C15: a finished run of cost_efficiency_score with --test has constructed
\* each of the three providers exactly once in test mode, has called
\* get_cost_data exactly once on each with exactly the given dates, and has
\* called the composite-score function exactly once.
C15_EachCalledOnce ==
    (cmd = "cost_efficiency_score" /\ test /\ Ended) =>
        /\ CallsOf("AWSCostProvider") = 1
        /\ CallsWith("AWSCostProvider", "AWS", [test_mode |-> TRUE]) = 1
        /\ CallsOf("AzureCostProvider") = 1
        /\ CallsWith("AzureCostProvider", "Azure",
                     [subscription_id |-> "test", test_mode |-> TRUE]) = 1
        /\ CallsOf("GCPCostProvider") = 1
        /\ CallsWith("GCPCostProvider", "GCP",
                     [project_id |-> "test", test_mode |-> TRUE]) = 1
        /\ \A v \in Vendors :
              /\ FetchesOf(v) = 1
              /\ CallsWith("get_cost_data", v, <<start_date, end_date>>) = 1
        /\ CallsOf("calculate_composite_score") = 1


\* C16: group-and-sum along a dimension the records of the ledger do not
\* carry (region) does not raise: the command finishes and all the records
\* are in one synthetic group, whose total is their whole cost.
C16_MissingDimensionGrouped ==
    (cmd = "cost_by_region" /\ Ended /\ failed = {}
        /\ "region" \notin combined_data.columns) =>
        /\ pc = "done"
        /\ Cardinality(DOMAIN output.value) <= 1
        /\ \A g \in DOMAIN output.value :
              output.value[g] = CostSum(combined_data.rows)


-----------------------------------------------------------------------------
(* Properties of the synthetic generator (SpecGenerator) *)

\* the generated rows dated d
RowsOfDay(d) == {i \in 1..Len(generated.rows) : generated.rows[i].timestamp = d}

\* get_test_data was called
Generated == gen_args # NoGenArgs

\* C17: after get_test_data(start, end, cloud_name), every day from start to
\* end inclusive has between 3 and 5 records, no record is dated outside that
\* range, every record has a cost between 10.00 and 1000.00 (so never
\* negative) and tags giving an environment, a team and a project; when end
\* is before start there are no records.
C17_GeneratorShape ==
    Generated =>
        /\ \A d \in gen_args.start..gen_args.end : Cardinality(RowsOfDay(d)) \in 3..5
        /\ \A i \in 1..Len(generated.rows) :
              /\ generated.rows[i].timestamp \in gen_args.start..gen_args.end
              /\ generated.rows[i].cost >= 0
              /\ generated.rows[i].cost \in 1000..100000
              /\ \A key \in {"environment", "team", "project"} :
                    \E tag \in generated.rows[i].tags : tag[1] = key
        /\ gen_args.end < gen_args.start => generated.rows = <<>>

\* a call over two days, one with four records and one with five
C17_TwoDaysGenerated ==
    /\ Generated
    /\ gen_args.start < gen_args.end
    /\ Cardinality(RowsOfDay(gen_args.start)) = 4
    /\ Cardinality(RowsOfDay(gen_args.end)) = 5


-----------------------------------------------------------------------------
(* Properties of interpret_score (SpecInterpret) *)

\* the place of a suggestion in the order the list is to have: static items,
\* then the low-utilization warning, then the low-coverage warning
Rank(item) ==
    CASE item = LowUtilization -> 1
      [] item = LowCoverage -> 2
      [] OTHER -> 0

\* the suggestions interpret_score returned
Returned == interpretation.value

\* C18: a list of suggestions interpret_score returns has at most 5 items and
\* is ordered: static items of the score's band first, then the
\* low-utilization warning, then the low-reservation-coverage warning; a
\* warning is in it at most once and only where its condition holds.
C18_AtMostFiveOrdered ==
    interpretation.status = "ok" =>
        /\ Len(Returned) <= 5
        /\ \A i \in 1..Len(Returned), j \in 1..Len(Returned) :
              i < j => (Rank(Returned[i]) <= Rank(Returned[j])
                        /\ Returned[i] # Returned[j])
        /\ \A i \in 1..Len(Returned) :
              /\ Rank(Returned[i]) = 0 =>
                    /\ i <= Len(StaticSuggestions(interpret_args.score))
                    /\ Returned[i] = StaticSuggestions(interpret_args.score)[i]
              /\ Rank(Returned[i]) = 1 => UtilizationLow(interpret_args.cost_data)
              /\ Rank(Returned[i]) = 2 => CoverageLow(interpret_args.cost_data)

\* a call in the lowest band where both warnings apply: four static items
\* and the low-utilization warning come back, the sixth item is cut
C18_SixthItemCut ==
    /\ interpretation.status = "ok"
    /\ interpret_args.score < 60
    /\ UtilizationLow(interpret_args.cost_data)
    /\ "is_reserved_instance" \in interpret_args.cost_data.columns
    /\ CoverageLow(interpret_args.cost_data)
    /\ Len(Returned) = 5
    /\ Returned[5] = LowUtilization


-----------------------------------------------------------------------------
(* Properties of the exported gauges (SpecMetrics) *)

\* the label combinations the data of a cycle holds for each gauge (none for
\* a gauge whose label columns the frame does not have)
ExpectedLabels(data) ==
    LET rows == data.cost_data.rows
        cols == data.cost_data.columns
        budget_list == data.budget_data.value
    IN  [g \in GaugeNames |->
           CASE g = "AZURE_COST_TOTAL" ->
                  IF {"subscription_id", "service"} \subseteq cols
                  THEN {<<rows[i].subscription_id, rows[i].service>> : i \in 1..Len(rows)}
                  ELSE {}
             [] g = "AZURE_RESOURCE_COST" ->
                  IF {"subscription_id", "resource_group", "resource_type"} \subseteq cols
                  THEN {<<rows[i].subscription_id, rows[i].resource_group,
                          rows[i].resource_type>> : i \in 1..Len(rows)}
                  ELSE {}
             [] g = "AZURE_BUDGET_USAGE" ->
                  {<<budget_list[i].subscription_id, budget_list[i].name>> :
                      i \in 1..Len(budget_list)}
             [] OTHER -> DOMAIN data.scores]

\* the label combinations a set of gauges holds
LabelsOf(gs) == [g \in GaugeNames |-> DOMAIN gs[g]]

\* C13: when a refresh cycle has ended, normally or after an error part-way,
\* each of the four gauges holds exactly the label combinations of that
\* cycle's data: none of an earlier cycle is left and none of this one is
\* missing.
C13_GaugesMatchCycle ==
    (refresh_pc = "idle" /\ cycles > 0) =>
        LabelsOf(gauges) = ExpectedLabels(refresh_data)

\* C19: what a request of /metrics reads while a refresh cycle is running is
\* either the gauges as they were before the cycle or the complete set of the
\* new cycle, never an emptied or half-filled gauge or a mix of the two.
C19_ReaderSeesWholeSnapshot ==
    (observed.taken /\ observed.during # "idle") =>
        \/ observed.gauges = observed.previous
        \/ LabelsOf(observed.gauges) = ExpectedLabels(observed.data)


-----------------------------------------------------------------------------
(* The ledger after hand-off (SpecAnomaly) *)

\* C20: a downstream component leaves the frame it was handed as it was: the
\* call of create_cost_anomaly_chart adds no field to the caller's frame,
\* rewrites no value of it and removes no record.
C20_LedgerUnchangedDownstream ==
    [][(anomaly_pc = "input" /\ anomaly_pc' = "charted") =>
          anomaly_df' = anomaly_df]_vars

-----------------------------------------------------------------------------
(* Properties of the error handling of a refresh cycle                     *)

\* the positions of update_efficiency_score, the last update function
InEfficiencyScore == refresh_pc \in {"clear_score", "set_score"}

\* C28: a refresh cycle always returns to the scheduler; once the data is
\* collected it ends only in update_efficiency_score, the last update
\* function, whatever failed before (a failing update_budget_metrics hands
\* over to it); and a cycle that ends in the collection leaves every gauge
\* as it was
C28_ErrorsStayInsideTheirFunction ==
    [][/\ (refresh_pc # "idle" /\ refresh_pc' = "idle") => InEfficiencyScore
       /\ (refresh_pc = "set_budget_usage" /\ refresh_pc' # refresh_pc)
              => refresh_pc' = "clear_score"
       /\ (refresh_pc = "idle" /\ cycles' # cycles)
              => (gauges' = gauges /\ refresh_pc' = "idle")]_vars

\* the first cycle failed inside update_cost_metrics (the resource gauge is
\* empty next to a filled cost gauge) and still set the efficiency scores;
\* the second one failed in the collection and kept the gauges
C28_FailedCollectionKeepsGauges ==
    /\ cycles = 2
    /\ refresh_pc = "idle"
    /\ ~refresh_data.collected
    /\ gauges["AZURE_COST_TOTAL"] # EmptyGauge
    /\ gauges["AZURE_RESOURCE_COST"] = EmptyGauge
    /\ gauges["AZURE_EFFICIENCY_SCORE"] # EmptyGauge

-----------------------------------------------------------------------------
(* Properties of the constructors of the three adapters                    *)

\* the three adapters have been constructed by the running command
Constructed == pc \notin {"idle", "usage_error"} /\ Len(calls) >= 3

\* C27: no constructor raises, whatever the authentication did, and every
\* constructed adapter is in test mode or has its vendor client
C27_TestModeOrClient ==
    /\ Constructed => \A v \in Vendors : test_mode[v] \/ client[v]
    /\ (pc = "fetch_aws" /\ called = {}) => (failed = {} /\ error = "")

\* one adapter fell back to test mode and another one holds its client
C27_FallbackAndLive ==
    /\ Constructed
    /\ ~test
    /\ test_mode["AWS"] /\ ~client["AWS"]
    /\ ~test_mode["Azure"] /\ client["Azure"]
    /\ test_mode["GCP"] /\ ~client["GCP"]

-----------------------------------------------------------------------------
(* Properties of the efficiency-score request                              *)

\* a request has been answered
Answered == response.status # NoResponse.status

\* C26: a request whose record set is empty is answered with a score payload
\* (status 200), never with an error response
C26_EmptyRecordSetScored ==
    (Answered /\ response.records = 0) => response.status = 200

-----------------------------------------------------------------------------
(* Properties of the Azure provider                                        *)

\* the subscription a returned record belongs to is a configured one
Configured(r) ==
    \E k \in 1..Len(azure_subscription_ids.ids) :
        r.subscription = azure_subscription_ids.ids[k]

\* C30: get_cost_data returns only records of configured subscriptions, so
\* none at all when no subscription is configured
C30_OnlyConfiguredSubscriptions ==
    returned_rows.called =>
        \A i \in 1..Len(returned_rows.rows) : Configured(returned_rows.rows[i])

=============================================================================
